---- MODULE Spec2Model ----
(***************************************************************************)
(* A model of the rain-llvm code generator: representation selection       *)
(* (repr, repr_finite, repr_product, build_function_repr), the constant    *)
(* and local caches (compile_const, build) and the lowering calls that     *)
(* save and restore the generator's current function, head block, scope    *)
(* chain and region (build_lambda, build_ternary, build_gamma,             *)
(* build_shim), the expression builders (projection, calls, logical        *)
(* operations, indices, bits), the shim's signature and body, the symbol   *)
(* table of build_lambda_inline, the table Arena and the IxMap.            *)
(***************************************************************************)
EXTENDS Integers, Sequences, FiniteSets, TLC

(***************************************************************************)
(* Bounds of the model.                                                    *)
(***************************************************************************)
\* longest product type / parameter list drawn as an input
MaxFields == 3

\* calls made on a lib.rs Codegen in one session
MaxCalls == 4

\* top-level lowering calls made on a codegen/ Codegen in one session
MaxLowerings == 3

\* largest arity of a logical operation drawn as an input
MaxArity == 3

\* calls made on an Arena in one session
MaxArenaOps == 5

(***************************************************************************)
(* u128 values (Finite.0, Index.ix()) as eight 16-bit limbs, least         *)
(* significant first, so that the thresholds 1 << 32 and 1 << 64 of        *)
(* repr_finite are compared at their real width.                           *)
(***************************************************************************)
Limbs == 1..8

LimbMax == 2^16 - 1

FromNat(n) ==
    [i \in Limbs |-> IF i = 1 THEN n % 2^16
                     ELSE IF i = 2 THEN n \div 2^16
                     ELSE 0]

\* 1 << k as a u128, for 0 <= k < 128
Shl1(k) == [i \in Limbs |-> IF i = (k \div 16) + 1 THEN 2^(k % 16) ELSE 0]

\* a < b on u128
Lt(a, b) == \E i \in Limbs : a[i] < b[i] /\ \A j \in (i+1)..8 : a[j] = b[j]

\* a - 1, for a > 0
PredU(a) ==
    LET i == CHOOSE k \in Limbs : a[k] # 0 /\ \A j \in 1..(k-1) : a[j] = 0
    IN  [j \in Limbs |-> IF j < i THEN LimbMax
                         ELSE IF j = i THEN a[j] - 1
                         ELSE a[j]]

\* a + 1, for a < u128::MAX
SuccU(a) ==
    LET i == CHOOSE k \in Limbs : a[k] # LimbMax /\ \A j \in 1..(k-1) : a[j] = LimbMax
    IN  [j \in Limbs |-> IF j < i THEN 0
                         ELSE IF j = i THEN a[j] + 1
                         ELSE a[j]]

U128Max == [i \in Limbs |-> LimbMax]

(***************************************************************************)
(* Representations (enum Repr) and results.  Every representation is a     *)
(* record of one shape: kind, the basic LLVM type ty when it has one, the  *)
(* index mapping and the physical field / parameter types.                 *)
(***************************************************************************)
Repr_Type(t) == [kind |-> "Type", ty |-> t, mapping |-> <<>>, repr |-> <<>>]

Repr_Prop == [kind |-> "Prop", ty |-> "", mapping |-> <<>>, repr |-> <<>>]

Repr_Empty == [kind |-> "Empty", ty |-> "", mapping |-> <<>>, repr |-> <<>>]

Repr_Irrep == [kind |-> "Irrep", ty |-> "", mapping |-> <<>>, repr |-> <<>>]

Repr_Product(m, r) == [kind |-> "Product", ty |-> "struct", mapping |-> m, repr |-> r]

\* a FunctionRepr: ret is the return type, r the parameter types
Repr_Function(m, r, ret) == [kind |-> "Function", ty |-> ret, mapping |-> m, repr |-> r]

Ok(r) == [tag |-> "Ok", val |-> r]

Err(e) == [tag |-> "Err", val |-> [kind |-> "Error", ty |-> e, mapping |-> <<>>, repr |-> <<>>]]

\* unimplemented!(), panic!(), a failed expect(): the lowering session ends
Panic(e) == [tag |-> "Panic", val |-> [kind |-> "Panic", ty |-> e, mapping |-> <<>>, repr |-> <<>>]]

(***************************************************************************)
(* repr_finite / compile_finite: the representation of Finite(value).      *)
(***************************************************************************)
repr_finite(value) ==
    IF value = FromNat(0) THEN Repr_Empty
    ELSE IF value = FromNat(1) THEN Repr_Prop
    ELSE IF value = FromNat(2) THEN Repr_Type("i1")
    ELSE IF Lt(value, Shl1(8)) THEN Repr_Type("i8")
    ELSE IF Lt(value, Shl1(16)) THEN Repr_Type("i16")
    ELSE IF Lt(value, Shl1(32)) THEN Repr_Type("i32")
    ELSE IF Lt(value, Shl1(64)) THEN Repr_Type("i64")
    ELSE Repr_Type("i128")

compile_finite(value) ==
    IF value = FromNat(0) THEN Repr_Empty
    ELSE IF value = FromNat(1) THEN Repr_Prop
    ELSE IF value = FromNat(2) THEN Repr_Type("i1")
    ELSE IF Lt(value, Shl1(8)) THEN Repr_Type("i8")
    ELSE IF Lt(value, Shl1(16)) THEN Repr_Type("i16")
    ELSE IF Lt(value, Shl1(32)) THEN Repr_Type("i32")
    ELSE IF Lt(value, Shl1(64)) THEN Repr_Type("i64")
    ELSE Repr_Type("i128")

\* the cardinalities drawn as inputs: small ones, the ones the tests use and
\* both sides of every threshold
Cards ==
    {FromNat(n) : n \in {0, 1, 2, 3, 6, 73, 255, 256, 257, 512, 1025, 65535, 65536, 65537}}
    \cup {PredU(Shl1(32)), Shl1(32), SuccU(Shl1(32))}
    \cup {PredU(Shl1(64)), Shl1(64), SuccU(Shl1(64))}
    \cup {Shl1(127), U128Max}

(***************************************************************************)
(* Lowered values (enum Val / Local) and the results of lowering calls.    *)
(***************************************************************************)
Val_Value(v) == [kind |-> "Value", v |-> v]

Val_Function(f) == [kind |-> "Function", v |-> f]

Val_Unit == [kind |-> "Unit", v |-> ""]

Val_Contr == [kind |-> "Contr", v |-> ""]

Val_Irrep == [kind |-> "Irrep", v |-> ""]

VErr(e) == [tag |-> "Err", val |-> [kind |-> "Error", v |-> e]]

VPanic(e) == [tag |-> "Panic", val |-> [kind |-> "Panic", v |-> e]]

(***************************************************************************)
(* Index maps.  A ProductRepr of tuple.rs / lib.rs maps each logical field *)
(* to Some(slot) or None.  An IxMap of repr.rs is a Vec<i32>: an i32 is    *)
(* kept as its two 16-bit halves <<low, high>>, so that `ix as i32` and    *)
(* `ix as u32` are the bit-preserving casts they are in the code.          *)
(***************************************************************************)
Some(n) == [some |-> TRUE, ix |-> n]

None == [some |-> FALSE, ix |-> 0]

\* a u32 slot count as its 32 bits
U32(n) == <<n % 2^16, n \div 2^16>>

\* ReprIx::PROP_IX = -1 in two's complement
PROP_IX == <<LimbMax, LimbMax>>

\* IxMap::push_ix: self.0.push(ix as i32)
push_ix(m, ix) == Append(m, ix)

\* IxMap::push_prop: self.0.push(ReprIx::PROP_IX)
push_prop(m) == Append(m, PROP_IX)

(***************************************************************************)
(* The field representations a product or parameter list is drawn from:    *)
(* what self.repr(ty) returns for the field, and what self.build returns   *)
(* for a tuple member of that type.                                        *)
(***************************************************************************)
InnerProduct == Repr_Product(<<Some(0)>>, <<"i8">>)

InnerFunction == Repr_Function(<<U32(0)>>, <<"i8">>, "i8")

F_scalar == [repr |-> Ok(Repr_Type("i8")), val |-> Ok(Val_Value("i8"))]

F_prop == [repr |-> Ok(Repr_Prop), val |-> Ok(Val_Unit)]

F_empty == [repr |-> Ok(Repr_Empty), val |-> Ok(Val_Contr)]

F_function == [repr |-> Ok(Repr_Function(<<U32(0)>>, <<"i8">>, "i8")), val |-> Ok(Val_Function("f"))]

F_product == [repr |-> Ok(InnerProduct), val |-> Ok(Val_Value("struct"))]

F_irrep == [repr |-> Ok(Repr_Irrep), val |-> VErr("Irrepresentable")]

F_reprerr == [repr |-> Err("NotImplemented"), val |-> VErr("NotImplemented")]

F_valerr == [repr |-> Ok(Repr_Type("i8")), val |-> VErr("NotImplemented")]

Fields == {F_scalar, F_prop, F_empty, F_function, F_product, F_irrep, F_reprerr, F_valerr}

SeqsUpTo(S, n) == UNION {[1..k -> S] : k \in 0..n}

Products == SeqsUpTo(Fields, MaxFields)

(***************************************************************************)
(* repr_product (codegen/tuple.rs) and compile_product (lib.rs).           *)
(***************************************************************************)
\* the tail of both functions: if struct_index == 0 { Empty } else { Product }
product_finish(mapping, struct_index, repr_vec) ==
    IF struct_index = 0 THEN Ok(Repr_Empty)
    ELSE Ok(Repr_Product(mapping, repr_vec))

\* the scan of the remaining fields after an Irrep field: `r?` returns the
\* first Err; otherwise whether some remaining field is Empty
\* a plausible slip: the fields after an Irrep field are not scanned for Empty
irrep_scan_noscan(p, i) ==
    LET rest == (i+1)..Len(p)
        errs == {j \in rest : p[j].repr.tag # "Ok"}
    IN  IF errs # {}
        THEN p[CHOOSE j \in errs : \A k \in errs : j <= k].repr
        ELSE Ok(Repr_Irrep)

irrep_scan(p, i) ==
    LET rest == (i+1)..Len(p)
        errs == {j \in rest : p[j].repr.tag # "Ok"}
    IN  IF errs # {}
        THEN p[CHOOSE j \in errs : \A k \in errs : j <= k].repr
        ELSE IF \E j \in rest : p[j].repr.val = Repr_Empty
             THEN Ok(Repr_Empty)
             ELSE Ok(Repr_Irrep)

RECURSIVE product_loop(_, _, _, _, _)
product_loop(p, i, mapping, struct_index, repr_vec) ==
    IF i > Len(p) THEN product_finish(mapping, struct_index, repr_vec)
    ELSE LET r == p[i].repr IN
         IF r.tag # "Ok" THEN r
         ELSE CASE r.val.kind = "Type" ->
                     product_loop(p, i + 1, Append(mapping, Some(struct_index)),
                                  struct_index + 1, Append(repr_vec, r.val.ty))
                [] r.val.kind = "Function" ->
                     product_loop(p, i + 1, Append(mapping, Some(struct_index)),
                                  struct_index + 1, Append(repr_vec, "ptr"))
                [] r.val.kind = "Empty" -> Ok(Repr_Empty)
                [] r.val.kind = "Irrep" ->
                     LET s == irrep_scan(p, i) IN
                     IF s = Ok(Repr_Irrep)
                     THEN product_finish(mapping, struct_index, repr_vec)
                     ELSE s
                [] r.val.kind = "Prop" ->
                     product_loop(p, i + 1, Append(mapping, None), struct_index, repr_vec)
                [] r.val.kind = "Product" ->
                     product_loop(p, i + 1, Append(mapping, Some(struct_index)),
                                  struct_index + 1, Append(repr_vec, "struct"))

repr_product(p) == product_loop(p, 1, <<>>, 0, <<>>)

compile_product(p) == product_loop(p, 1, <<>>, 0, <<>>)

(***************************************************************************)
(* build_tuple (codegen/tuple.rs): the members with a physical slot are    *)
(* lowered in order and packed into a constant struct.                     *)
(***************************************************************************)
RECURSIVE tuple_members(_, _, _, _)
tuple_members(t, mapping, i, values) ==
    IF i > Len(mapping) THEN Ok(Val_Value("struct"))
    ELSE IF ~mapping[i].some THEN tuple_members(t, mapping, i + 1, values)
    ELSE LET this_result == t[i].val IN
         IF this_result.tag # "Ok" THEN this_result
         ELSE IF this_result.val.kind = "Value"
              THEN tuple_members(t, mapping, i + 1, Append(values, this_result.val))
         ELSE IF this_result.val.kind = "Function"
              THEN VPanic("Function tuple members")
         ELSE VPanic("Invalid tuple member")

build_tuple(t) ==
    LET r == repr_product(t) IN
    IF r.tag # "Ok" THEN VErr(r.val.ty)
    ELSE CASE r.val.kind = "Product" -> tuple_members(t, r.val.mapping, 1, <<>>)
           [] r.val.kind = "Prop" -> Ok(Val_Unit)
           [] r.val.kind = "Empty" -> Ok(Val_Contr)
           [] r.val.kind = "Irrep" -> VErr("Irrepresentable")
           [] r.val.kind = "Function" -> VErr("NotImplemented")
           [] r.val.kind = "Type" -> VErr("NotImplemented")

(***************************************************************************)
(* build_function_repr (codegen/function.rs).  A pi type is drawn as the   *)
(* depth of its result type, what self.repr returns for the result type    *)
(* and what it returns for each parameter type.  The value returned holds  *)
(* the Result and the number of LLVM function types built (fn_type calls). *)
(***************************************************************************)
PiFields == {F_scalar, F_prop, F_empty, F_function, F_product, F_reprerr}

Pis == [depth : {0, 1}, result : PiFields, params : SeqsUpTo(PiFields, MaxFields)]

RECURSIVE function_params(_, _, _, _, _, _)
function_params(params, i, result_repr, input_reprs, input_ixes, has_empty) ==
    IF i > Len(params)
    THEN IF has_empty
         THEN [res |-> Ok(Repr_Prop), fn_types |-> 0]
         ELSE [res |-> Ok(Repr_Function(input_ixes, input_reprs, result_repr)), fn_types |-> 1]
    ELSE LET r == params[i].repr IN
         IF r.tag # "Ok" THEN [res |-> r, fn_types |-> 0]
         ELSE CASE r.val.kind = "Type" ->
                     IF ~has_empty
                     THEN function_params(params, i + 1, result_repr,
                                          Append(input_reprs, r.val.ty),
                                          push_ix(input_ixes, U32(Len(input_reprs))), has_empty)
                     ELSE function_params(params, i + 1, result_repr, input_reprs, input_ixes, has_empty)
                [] r.val.kind = "Function" ->
                     [res |-> Panic("unimplemented"), fn_types |-> 0]
                [] r.val.kind = "Prop" ->
                     IF ~has_empty
                     THEN function_params(params, i + 1, result_repr, input_reprs,
                                          push_prop(input_ixes), has_empty)
                     ELSE function_params(params, i + 1, result_repr, input_reprs, input_ixes, has_empty)
                [] r.val.kind = "Empty" ->
                     function_params(params, i + 1, result_repr, input_reprs, input_ixes, TRUE)
                [] r.val.kind = "Product" ->
                     IF ~has_empty
                     THEN function_params(params, i + 1, result_repr,
                                          Append(input_reprs, "struct"),
                                          push_ix(input_ixes, U32(Len(input_reprs))), has_empty)
                     ELSE function_params(params, i + 1, result_repr, input_reprs, input_ixes, has_empty)

\* a plausible slip: an Uninhabited return type answered with Empty, not Prop
build_function_repr_marker(pi) ==
    IF pi.depth # 0 THEN [res |-> Err("NotImplemented"), fn_types |-> 0]
    ELSE LET r == pi.result.repr IN
         IF r.tag # "Ok" THEN [res |-> r, fn_types |-> 0]
         ELSE CASE r.val.kind = "Type" -> function_params(pi.params, 1, r.val.ty, <<>>, <<>>, FALSE)
                [] r.val.kind = "Function" -> [res |-> Panic("unimplemented"), fn_types |-> 0]
                [] r.val.kind = "Prop" -> [res |-> Ok(Repr_Prop), fn_types |-> 0]
                [] r.val.kind = "Empty" -> [res |-> Ok(Repr_Empty), fn_types |-> 0]
                [] r.val.kind = "Product" -> function_params(pi.params, 1, "struct", <<>>, <<>>, FALSE)

build_function_repr(pi) ==
    IF pi.depth # 0 THEN [res |-> Err("NotImplemented"), fn_types |-> 0]
    ELSE LET r == pi.result.repr IN
         IF r.tag # "Ok" THEN [res |-> r, fn_types |-> 0]
         ELSE CASE r.val.kind = "Type" -> function_params(pi.params, 1, r.val.ty, <<>>, <<>>, FALSE)
                [] r.val.kind = "Function" -> [res |-> Panic("unimplemented"), fn_types |-> 0]
                [] r.val.kind \in {"Prop", "Empty"} -> [res |-> Ok(Repr_Prop), fn_types |-> 0]
                [] r.val.kind = "Product" -> function_params(pi.params, 1, "struct", <<>>, <<>>, FALSE)

(***************************************************************************)
(* Codegen::repr (codegen/mod.rs): the representation cache `reprs`.       *)
(* A type is BoolTy, Finite(card) or another variant (a product here), for *)
(* which this repr is unimplemented.                                       *)
(***************************************************************************)
BoolTy == [variant |-> "BoolTy", card |-> FromNat(0)]

Finite(c) == [variant |-> "Finite", card |-> c]

ProductTy == [variant |-> "Product", card |-> FromNat(0)]

CachedCards == {FromNat(0), FromNat(1), FromNat(2), FromNat(6), FromNat(256), Shl1(64)}

TypeIds == {BoolTy, ProductTy} \cup {Finite(c) : c \in CachedCards}

\* no entry in a cache
Absent == [kind |-> "Absent", ty |-> "", mapping |-> <<>>, repr |-> <<>>]

\* what one call of repr does to the cache rs: the cache afterwards, the
\* Result, whether it was served from the cache, and the value `old` that
\* reprs.insert returned when an insert was made (Absent is None)
ReprOutcome(rs, ret, hit, inserted, old) ==
    [reprs |-> rs, ret |-> ret, hit |-> hit, inserted |-> inserted, old |-> old]

\* a plausible slip: the cached case is missing
repr_uncached(rs, t) ==
    IF t.variant = "BoolTy" THEN ReprOutcome(rs, Ok(Repr_Type("i1")), FALSE, FALSE, Absent)
    ELSE IF t.variant = "Finite"
         THEN LET r == repr_finite(t.card) IN
              ReprOutcome([rs EXCEPT ![t] = r], Ok(r), FALSE, TRUE, rs[t])
         ELSE ReprOutcome(rs, Panic("unimplemented"), FALSE, FALSE, Absent)

repr(rs, t) ==
    IF t.variant = "BoolTy" THEN ReprOutcome(rs, Ok(Repr_Type("i1")), FALSE, FALSE, Absent)
    ELSE IF rs[t] # Absent THEN ReprOutcome(rs, Ok(rs[t]), TRUE, FALSE, Absent)
    ELSE IF t.variant = "Finite"
         THEN LET r == repr_finite(t.card) IN
              ReprOutcome([rs EXCEPT ![t] = r], Ok(r), FALSE, TRUE, rs[t])
         ELSE ReprOutcome(rs, Panic("unimplemented"), FALSE, FALSE, Absent)

(***************************************************************************)
(* lib.rs: the constant cache (compile_const) and the local cache (build). *)
(* A small DAG of rain values.  Depth-0 values: a boolean, an index, the   *)
(* lambdas id (body: its parameter), konst (body: the constant true),      *)
(* shared (body: twice), unitf (result type of representation Prop), dep   *)
(* (a result type that depends on the parameter), and a pi type.  Depth-1  *)
(* values of the one region: the parameter x, not_x = (Not x),             *)
(* and_x_true = (And x true), twice = (And not_x not_x).                   *)
(***************************************************************************)
Leaf(variant, depth) ==
    [variant |-> variant, depth |-> depth, result_depth |-> 0,
     result_repr |-> "", body |-> "", args |-> <<>>]

Lambda(result_depth, result_repr, body) ==
    [variant |-> "Lambda", depth |-> 0, result_depth |-> result_depth,
     result_repr |-> result_repr, body |-> body, args |-> <<>>]

Sexpr(args) ==
    [variant |-> "Sexpr", depth |-> 1, result_depth |-> 0,
     result_repr |-> "", body |-> "", args |-> args]

ValIds ==
    {"true", "ix", "id", "konst", "shared", "unitf", "dep", "pi",
     "x", "not_x", "and_x_true", "twice"}

as_enum(v) ==
    CASE v = "true"       -> Leaf("Bool", 0)
      [] v = "ix"         -> Leaf("Index", 0)
      [] v = "pi"         -> Leaf("Pi", 0)
      [] v = "id"         -> Lambda(0, "Type", "x")
      [] v = "konst"      -> Lambda(0, "Type", "true")
      [] v = "shared"     -> Lambda(0, "Type", "twice")
      [] v = "unitf"      -> Lambda(0, "Prop", "x")
      [] v = "dep"        -> Lambda(1, "Type", "x")
      [] v = "x"          -> Leaf("Parameter", 1)
      [] v = "not_x"      -> Sexpr(<<"x">>)
      [] v = "and_x_true" -> Sexpr(<<"x", "true">>)
      [] v = "twice"      -> Sexpr(<<"not_x", "not_x">>)

ConstIds == {v \in ValIds : as_enum(v).depth = 0}

LocalIds == ValIds \ ConstIds

Const_Value(v) == [kind |-> "Value", v |-> <<v, 0>>]

Const_Function(k) == [kind |-> "Function", v |-> <<"__lambda", k>>]

Const_Unit == [kind |-> "Unit", v |-> <<"", 0>>]

Local_Value(v) == [kind |-> "Value", v |-> v]

Local_Unit == [kind |-> "Unit", v |-> <<"", 0>>]

\* impl From<Const> for Local
Local_from(c) ==
    IF c.kind \in {"Value", "Function"} THEN Local_Value(c.v) ELSE c

\* no entry in consts or in locals
NoEntry == [kind |-> "None", v |-> <<"", 0>>]

\* Codegen::new, with the history of compile_enum runs per value
Codegen_new ==
    [consts |-> [v \in ValIds |-> NoEntry], counter |-> 0, functions |-> 0,
     enum_runs |-> [v \in ValIds |-> 0], enum_oks |-> [v \in ValIds |-> 0]]

\* LocalCtx::new, with the history of build calls and build_enum runs per
\* value; registered is the set of parameters bound by const_pi_prototype
LocalCtx_new(region_depth, func, registered) ==
    [live |-> TRUE, func |-> func,
     locals |-> [v \in ValIds |->
                    IF v \in registered THEN Local_Value(<<"param", 0>>) ELSE NoEntry],
     region_depth |-> region_depth,
     builds |-> [v \in ValIds |-> 0],
     enum_runs |-> [v \in ValIds |-> 0],
     enum_oks |-> [v \in ValIds |-> 0],
     routed |-> [v \in ValIds |-> 0]]

\* no local context has been made yet
NoCtx == [LocalCtx_new(0, 0, {}) EXCEPT !.live = FALSE]

\* the outcome of a step of lowering: the Codegen, the local context and
\* the Result
Out(cg, ctx, ret) == [cg |-> cg, ctx |-> ctx, ret |-> ret]

CgOut(cg, ret) == [cg |-> cg, ret |-> ret]

IsIntValue(l) == l.kind = "Value" /\ l.v[1] # "__lambda"

\* Create a function prototype for a constant pi type: the type of lambda l
const_pi_prototype(cg, l) ==
    IF l.depth # 0 THEN [cg |-> cg, proto |-> "Err", err |-> Err("NotConst"), ctx |-> NoCtx]
    ELSE IF l.result_depth # 0
    THEN [cg |-> cg, proto |-> "Err", err |-> Err("NotImplemented"), ctx |-> NoCtx]
    ELSE IF l.result_repr = "Function"
    THEN [cg |-> cg, proto |-> "Err", err |-> Panic("unimplemented"), ctx |-> NoCtx]
    ELSE IF l.result_repr \in {"Empty", "Prop"}
    THEN [cg |-> cg, proto |-> "Prop", err |-> Err(""), ctx |-> NoCtx]
    ELSE IF l.result_repr = "Irrep"
    THEN [cg |-> cg, proto |-> "Irrep", err |-> Err(""), ctx |-> NoCtx]
    ELSE [cg |-> [cg EXCEPT !.counter = @ + 1, !.functions = @ + 1],
          proto |-> "Ctx", err |-> Err(""),
          ctx |-> LocalCtx_new(1, cg.counter, {"x"})]

\* the one member of a one-member set: Only({F(r) : r \in {e}}) is F(e)
\* with e worked out once
Only(S) == CHOOSE y \in S : TRUE

RECURSIVE build(_, _, _)
RECURSIVE compile_const(_, _)

build_parameter(cg, ctx, v) ==
    IF ctx.locals[v] # NoEntry THEN Out(cg, ctx, Ok(ctx.locals[v]))
    ELSE Out(cg, ctx, Err("InternalError"))

\* the second argument of a binary operation, after the first one a
logical_rhs(a, args) ==
    Only({ IF b.ret.tag # "Ok" THEN b
           ELSE IF ~IsIntValue(b.ret.val) THEN Out(b.cg, b.ctx, Panic("A boolean value"))
           ELSE Out(b.cg, b.ctx, Ok(Local_Value(<<"pand", 0>>)))
         : b \in {build(a.cg, a.ctx, args[2])} })

\* Not for one argument, And for two: each argument is built in order, an
\* Err returns at once (`?`), a non-integer argument panics (`expect`)
build_logical_expr(cg, ctx, args) ==
    Only({ IF a.ret.tag # "Ok" THEN a
           ELSE IF ~IsIntValue(a.ret.val) THEN Out(a.cg, a.ctx, Panic("A boolean value"))
           ELSE IF Len(args) = 1 THEN Out(a.cg, a.ctx, Ok(Local_Value(<<"pnot", 0>>)))
           ELSE logical_rhs(a, args)
         : a \in {build(cg, ctx, args[1])} })

build_sexpr(cg, ctx, s) ==
    IF Len(s.args) = 0 THEN Out(cg, ctx, Ok(Local_Unit))
    ELSE build_logical_expr(cg, ctx, s.args)

build_retv(cg, ctx, v) ==
    Only({ IF b.ret.tag # "Ok" THEN b
           ELSE IF b.ret.val.kind = "Value" /\ ~IsIntValue(b.ret.val)
           THEN Out(b.cg, b.ctx, Panic("unimplemented"))
           ELSE Out(b.cg, b.ctx, Ok(Local_Value(<<"ret", 0>>)))
         : b \in {build(cg, ctx, v)} })

\* the lambda's body built into the prototype p and returned
lambda_body(p, l) ==
    Only({ IF b.ret.tag # "Ok" THEN CgOut(b.cg, b.ret)
           ELSE CgOut(b.cg, Ok(Const_Function(p.ctx.func)))
         : b \in {build_retv(p.cg, p.ctx, l.body)} })

compile_lambda(cg, l) ==
    Only({ CASE p.proto = "Err"   -> CgOut(p.cg, p.err)
             [] p.proto = "Prop"  -> CgOut(p.cg, Ok(Const_Unit))
             [] p.proto = "Irrep" -> CgOut(p.cg, Ok([kind |-> "Irrep", v |-> <<"", 0>>]))
             [] p.proto = "Ctx"   -> lambda_body(p, l)
         : p \in {const_pi_prototype(cg, l)} })

compile_variant(cg, v, e) ==
    CASE e.variant = "Bool"      -> CgOut(cg, Ok(Const_Value("i1")))
      [] e.variant = "Index"     -> CgOut(cg, Ok(Const_Value("i8")))
      [] e.variant = "Lambda"    -> compile_lambda(cg, e)
      [] e.variant = "Parameter" -> CgOut(cg, Err("NotConst"))
      [] OTHER                   -> CgOut(cg, Panic("unimplemented"))

\* with the history of its runs per value
compile_enum(cg, v) ==
    Only({ IF r.ret.tag = "Ok" THEN CgOut([r.cg EXCEPT !.enum_oks[v] = @ + 1], r.ret)
           ELSE r
         : r \in {compile_variant([cg EXCEPT !.enum_runs[v] = @ + 1], v, as_enum(v))} })

\* a plausible slip: the cache is never consulted
compile_const_uncached(cg, v) ==
    Only({ IF c.ret.tag # "Ok" THEN c
           ELSE CgOut([c.cg EXCEPT !.consts[v] = c.ret.val], c.ret)
         : c \in {compile_enum(cg, v)} })

compile_const(cg, v) ==
    IF cg.consts[v] # NoEntry THEN CgOut(cg, Ok(cg.consts[v]))
    ELSE Only({ IF c.ret.tag # "Ok" THEN c
                ELSE CgOut([c.cg EXCEPT !.consts[v] = c.ret.val], c.ret)
              : c \in {compile_enum(cg, v)} })

\* `.map(Local::from)` on what a compile returned
map_Local_from(c, ctx) ==
    Out(c.cg, ctx, IF c.ret.tag = "Ok" THEN Ok(Local_from(c.ret.val)) ELSE c.ret)

build_variant(cg, ctx, v, e) ==
    CASE e.variant \in {"Bool", "Index"} ->
            Only({ map_Local_from(c, ctx) : c \in {compile_enum(cg, v)} })
      [] e.variant = "Parameter" -> build_parameter(cg, ctx, v)
      [] e.variant = "Sexpr"     -> build_sexpr(cg, ctx, e)
      [] OTHER                   -> Out(cg, ctx, Panic("unimplemented"))

\* with the history of its runs per value in the context
build_enum(cg, ctx, v) ==
    Only({ IF r.ret.tag = "Ok" THEN Out(r.cg, [r.ctx EXCEPT !.enum_oks[v] = @ + 1], r.ret)
           ELSE r
         : r \in {build_variant(cg, [ctx EXCEPT !.enum_runs[v] = @ + 1], v, as_enum(v))} })

\* the constant route of build: compile_const, counted in routed
build_const(cg, ctx, v) ==
    Only({ map_Local_from(c, [ctx EXCEPT !.routed[v] = @ + 1])
         : c \in {compile_const(cg, v)} })

\* a plausible slip: the result is not memoized into locals
build_unstored(cg, ctx, v) ==
    IF ctx.region_depth > 1
    THEN Out(cg, [ctx EXCEPT !.builds[v] = @ + 1], Err("NotImplemented"))
    ELSE IF as_enum(v).depth = 0
    THEN build_const(cg, [ctx EXCEPT !.builds[v] = @ + 1], v)
    ELSE IF ctx.locals[v] # NoEntry
    THEN Out(cg, [ctx EXCEPT !.builds[v] = @ + 1], Ok(ctx.locals[v]))
    ELSE build_enum(cg, [ctx EXCEPT !.builds[v] = @ + 1], v)

build(cg, ctx, v) ==
    IF ctx.region_depth > 1
    THEN Out(cg, [ctx EXCEPT !.builds[v] = @ + 1], Err("NotImplemented"))
    ELSE IF as_enum(v).depth = 0
    THEN build_const(cg, [ctx EXCEPT !.builds[v] = @ + 1], v)
    ELSE IF ctx.locals[v] # NoEntry
    THEN Out(cg, [ctx EXCEPT !.builds[v] = @ + 1], Ok(ctx.locals[v]))
    ELSE Only({ IF r.ret.tag # "Ok" THEN r
                ELSE Out(r.cg, [r.ctx EXCEPT !.locals[v] = r.ret.val], r.ret)
              : r \in {build_enum(cg, [ctx EXCEPT !.builds[v] = @ + 1], v)} })

(***************************************************************************)
(* codegen/function.rs, ternary.rs, gamma.rs, shim.rs: the lowering frame  *)
(* of a Codegen: region, curr (the function being filled), head (its       *)
(* current block), locals (the symbol table) and the builder's insertion   *)
(* point.  A function is known by its index in the module, a block by      *)
(* <<function, name>>.                                                     *)
(***************************************************************************)
NoFn == -1

NoBlock == <<NoFn, "">>

Block(f, name) == <<f, name>>

\* the null region, self.region.take()
NullRegion == ""

\* self.locals = None, self.locals.take()
NoLocals == ""

Pi(result_depth, result, params) ==
    [depth |-> result_depth, result |-> result, params |-> params]

FNode(kind, pi, body, branches) ==
    [kind |-> kind, depth |-> 0, pi |-> pi, body |-> body, branches |-> branches,
     low_ty |-> pi.result]

FLeaf(kind, body) == FNode(kind, Pi(0, F_scalar, <<>>), body, <<>>)

LambdaIds == {"id", "unitfn", "absurd", "depfn", "failing", "caller", "over_tern",
              "closure", "never", "caller_unit"}

TernaryIds == {"tern", "tern_dep", "tern_unit", "tern_absurd", "tern_bad",
               "tern_mixed", "tern_product", "tern_fn", "tern_contr"}

GammaIds == {"gamma1", "gamma2", "gamma3"}

\* the rain nodes lowered: lambdas with their body, ternaries with their
\* high branch (the low branch is the constant true, of the type low_ty,
\* which is the type of the high branch but for "tern_mixed"), gammas with the
\* lambdas of their branches, and the leaves: the parameter, a boolean
\* constant, a node whose lowering returns Err, and the applications of id
\* and of unitfn to the parameter, and a node of a scalar type whose
\* lowering returns the contradiction value.  "closure" is a lambda of depth 1: it captures a
\* parameter of an enclosing region.
fnode(n) ==
    CASE n = "id"          -> FNode("Lambda", Pi(0, F_scalar, <<F_scalar>>), "param", <<>>)
      [] n = "unitfn"      -> FNode("Lambda", Pi(0, F_prop, <<F_scalar>>), "param", <<>>)
      [] n = "absurd"      -> FNode("Lambda", Pi(0, F_scalar, <<F_empty>>), "param", <<>>)
      [] n = "depfn"       -> FNode("Lambda", Pi(1, F_scalar, <<F_scalar>>), "param", <<>>)
      [] n = "failing"     -> FNode("Lambda", Pi(0, F_scalar, <<F_scalar>>), "bad", <<>>)
      [] n = "caller"      -> FNode("Lambda", Pi(0, F_scalar, <<F_scalar>>), "call_id", <<>>)
      [] n = "caller_unit" -> FNode("Lambda", Pi(0, F_scalar, <<F_scalar>>), "call_unitfn", <<>>)
      [] n = "over_tern"   -> FNode("Lambda", Pi(0, F_scalar, <<F_scalar>>), "tern_dep", <<>>)
      [] n = "never"       -> FNode("Lambda", Pi(0, F_empty, <<F_scalar>>), "param", <<>>)
      [] n = "closure"     -> [FNode("Lambda", Pi(0, F_scalar, <<F_scalar>>), "param", <<>>)
                                 EXCEPT !.depth = 1]
      [] n = "tern"        -> FNode("Ternary", Pi(0, F_scalar, <<F_scalar>>), "true", <<>>)
      [] n = "tern_dep"    -> FNode("Ternary", Pi(1, F_scalar, <<F_scalar>>), "true", <<>>)
      [] n = "tern_unit"   -> FNode("Ternary", Pi(0, F_prop, <<F_scalar>>), "true", <<>>)
      [] n = "tern_absurd" -> FNode("Ternary", Pi(0, F_scalar, <<F_scalar, F_empty>>), "true", <<>>)
      [] n = "tern_bad"    -> FNode("Ternary", Pi(0, F_scalar, <<F_scalar>>), "bad", <<>>)
      [] n = "tern_mixed"  -> [FNode("Ternary", Pi(0, F_product, <<F_scalar>>), "true", <<>>)
                                 EXCEPT !.low_ty = F_scalar]
      [] n = "tern_product" -> FNode("Ternary", Pi(0, F_product, <<F_scalar>>), "true", <<>>)
      [] n = "tern_fn"     -> FNode("Ternary", Pi(0, F_function, <<F_scalar>>), "id", <<>>)
      [] n = "tern_contr"  -> FNode("Ternary", Pi(0, F_scalar, <<F_scalar>>), "contr", <<>>)
      [] n = "gamma1"      -> FNode("Gamma", Pi(0, F_scalar, <<F_scalar>>), "", <<"id">>)
      [] n = "gamma2"      -> FNode("Gamma", Pi(0, F_scalar, <<F_scalar>>), "", <<"failing", "id">>)
      [] n = "gamma3"      -> FNode("Gamma", Pi(0, F_scalar, <<F_scalar>>), "", <<"id", "id", "id">>)
      [] n = "param"       -> FLeaf("Parameter", "")
      [] n = "true"        -> FLeaf("Bool", "")
      [] n = "bad"         -> FLeaf("Bad", "")
      [] n = "contr"       -> FLeaf("Contr", "")
      [] n = "call_id"     -> FLeaf("App", "id")
      [] n = "call_unitfn" -> FLeaf("App", "unitfn")

\* Codegen::new, built with or without debug assertions
Codegen_frame(debug) ==
    [region |-> NullRegion, curr |-> NoFn, head |-> NoBlock, locals |-> NoLocals,
     bpos |-> NoBlock, counter |-> 0, functions |-> 0, blocks |-> 0, debug |-> debug,
     log |-> <<>>, code |-> <<>>]

\* what a caller can observe of the frame
View(fr) ==
    [region |-> fr.region, curr |-> fr.curr, head |-> fr.head, locals |-> fr.locals,
     bpos |-> fr.bpos, counter |-> fr.counter, functions |-> fr.functions,
     blocks |-> fr.blocks]

FOut(fr, ret) == [fr |-> fr, ret |-> ret]

\* history: the call op(n) made in frame fr0 ended as out
Logged(fr0, op, n, out) ==
    Only({ FOut([o.fr EXCEPT !.log = Append(@, [op |-> op, node |-> n, pre |-> View(fr0),
                                                post |-> View(o.fr), ret |-> o.ret])],
                o.ret)
         : o \in {out} })

\* history: the builder appends instr to the block it is positioned at
emit(fr, instr) == [fr EXCEPT !.code = Append(@, [block |-> fr.bpos, instr |-> instr])]

\* module.add_function and append_basic_block(.., "entry"), the builder
\* positioned there; the frame saved by the caller is untouched
add_function(fr) ==
    [fr EXCEPT !.functions = @ + 1, !.blocks = @ + 1,
               !.bpos = Block(fr.functions, "entry")]

\* `self.builder.position_at_end(head)` when old_head is Some
position_at_old_head(old_head, bpos) ==
    IF old_head # NoBlock THEN old_head ELSE bpos

RECURSIVE Codegen_build(_, _)

\* Build an inline lambda function: a new symbol table (holding the
\* parameters when parameter values are given) while the body is built, the
\* old table afterwards.  curr_region is assigned nowhere, so its gcr with
\* the lambda is the null region and no layer is popped.
build_lambda_inline(fr, n, with_params) ==
    Only({ FOut([r.fr EXCEPT !.locals = fr.locals], r.ret)
         : r \in {Codegen_build([fr EXCEPT !.locals = IF with_params THEN n ELSE "noparams"],
                                fnode(n).body)} })

\* a plausible slip: Step 8 forgets `self.head = old_head`
lambda_cleanup_keeps_head(fr0, r, n, fn) ==
    IF r.ret.tag = "Panic" THEN r
    ELSE IF r.ret.tag = "Ok" /\ r.ret.val.kind # "Value"
    THEN FOut(r.fr, VPanic("Impossible representation"))
    ELSE IF r.fr.debug /\ (r.fr.region # n \/ r.fr.curr # fn)
    THEN FOut(r.fr, VPanic("debug_assert_eq"))
    ELSE FOut([r.fr EXCEPT !.curr = fr0.curr,
                           !.locals = fr0.locals,
                           !.region = fr0.region],
              IF r.ret.tag = "Err" THEN r.ret ELSE Ok(Val_Function(ToString(fn))))

\* Steps 7 to 9 of build_lambda, after the body returned r: the return
\* instruction, the debug assertions, the resets, the result
lambda_cleanup(fr0, r, n, fn) ==
    IF r.ret.tag = "Panic" THEN r
    ELSE IF r.ret.tag = "Ok" /\ r.ret.val.kind # "Value"
    THEN FOut(r.fr, VPanic("Impossible representation"))
    ELSE IF r.fr.debug /\ (r.fr.region # n \/ r.fr.curr # fn)
    THEN FOut(r.fr, VPanic("debug_assert_eq"))
    ELSE FOut([r.fr EXCEPT !.curr = fr0.curr,
                           !.head = fr0.head,
                           !.bpos = position_at_old_head(fr0.head, r.fr.bpos),
                           !.locals = fr0.locals,
                           !.region = fr0.region],
              IF r.ret.tag = "Err" THEN r.ret ELSE Ok(Val_Function(ToString(fn))))

\* Steps 2 (function added) to 9 of build_lambda
lambda_emit(fr, n) ==
    Only({ lambda_cleanup(fr, r, n, fr.functions)
         : r \in {build_lambda_inline(
                     [add_function(fr) EXCEPT !.counter = @ + 1,
                                              !.region = n,
                                              !.curr = fr.functions,
                                              !.head = Block(fr.functions, "entry"),
                                              !.locals = NoLocals],
                     n, TRUE)} })

\* a plausible slip: a Prop signature is not returned early but emitted
lambda_prototype_emits(fr, n, res) ==
    CASE res.tag = "Panic"         -> FOut(fr, VPanic(res.val.ty))
      [] res.tag = "Err"           -> FOut([fr EXCEPT !.region = fr.region], VErr(res.val.ty))
      [] res.val.kind = "Prop"     -> lambda_emit(fr, n)
      [] res.val.kind = "Function" -> lambda_emit(fr, n)
      [] OTHER                     -> FOut(fr, VPanic("Invalid function representation"))

\* Step 2 of build_lambda on the Result res of build_function_repr
lambda_prototype(fr, n, res) ==
    CASE res.tag = "Panic"         -> FOut(fr, VPanic(res.val.ty))
      [] res.tag = "Err"           -> FOut([fr EXCEPT !.region = fr.region], VErr(res.val.ty))
      [] res.val.kind = "Prop"     -> FOut([fr EXCEPT !.region = fr.region], Ok(Val_Unit))
      [] res.val.kind = "Function" -> lambda_emit(fr, n)
      [] OTHER                     -> FOut(fr, VPanic("Invalid function representation"))

build_lambda(fr, n) ==
    Logged(fr, "build_lambda", n,
           IF fnode(n).depth # 0 THEN FOut(fr, VPanic("unimplemented"))
           ELSE lambda_prototype(fr, n, build_function_repr(fnode(n).pi).res))

\* Step 2.a of build_ternary and build_gamma: the parameter types in
\* order; "err" for a failed repr (`?`), "panic" for a function
\* representation, else whether a parameter is uninhabited
RECURSIVE create_parameters(_, _, _)
create_parameters(params, i, has_empty) ==
    IF i > Len(params) THEN (IF has_empty THEN "empty" ELSE "ok")
    ELSE IF params[i].repr.tag # "Ok" THEN "err"
    ELSE IF params[i].repr.val.kind = "Function" THEN "panic"
    ELSE create_parameters(params, i + 1, has_empty \/ params[i].repr.val.kind = "Empty")

Early(o) == [early |-> TRUE, out |-> o]

\* Steps 2 and 2.a of build_ternary and build_gamma, entered with the
\* region taken out of the frame fr: the early returns, or none
pi_prelude(fr, pi, old_region) ==
    IF pi.depth # 0 THEN Early(FOut(fr, VErr("NotImplemented")))
    ELSE IF pi.result.repr.tag # "Ok" THEN Early(FOut(fr, VErr(pi.result.repr.val.ty)))
    ELSE CASE pi.result.repr.val.kind = "Function" -> Early(FOut(fr, VPanic("unimplemented")))
           [] pi.result.repr.val.kind \in {"Empty", "Prop"} -> Early(FOut(fr, Ok(Val_Unit)))
           [] pi.result.repr.val.kind = "Irrep" -> Early(FOut(fr, Ok(Val_Irrep)))
           [] OTHER ->
                CASE create_parameters(pi.params, 1, FALSE) = "err" ->
                        Early(FOut(fr, VErr("NotImplemented")))
                  [] create_parameters(pi.params, 1, FALSE) = "panic" ->
                        Early(FOut(fr, VPanic("unimplemented")))
                  [] create_parameters(pi.params, 1, FALSE) = "empty" ->
                        Early(FOut([fr EXCEPT !.region = old_region], Ok(Val_Unit)))
                  [] OTHER -> [early |-> FALSE, out |-> FOut(fr, Ok(Val_Unit))]

\* Steps 2.b and 3 of build_ternary_inline in the function curr: the low branch,
\* then the head becomes the result block and the phi is built where the
\* builder stands
ternary_low(fr, n, curr) ==
    Only({ IF l.ret.tag # "Ok" THEN l
           ELSE IF l.ret.val.kind # "Value" THEN FOut(l.fr, VPanic("unimplemented"))
           ELSE FOut(emit([l.fr EXCEPT !.head = Block(curr, "ternary_result")],
                          [op |-> "phi",
                           to |-> <<Block(curr, "high"), Block(curr, "low")>>]),
                     Ok(Val_Value("tern")))
         : l \in {Codegen_build([fr EXCEPT !.head = Block(curr, "low"),
                                           !.bpos = Block(curr, "low")], "true")} })

build_ternary_inline(fr, n) ==
    Logged(fr, "build_ternary_inline", n,
    IF fr.curr = NoFn THEN FOut(fr, VErr("NoCurrentFunction"))
    ELSE IF fnode(n).low_ty # fnode(n).pi.result THEN FOut(fr, VPanic("unimplemented"))
    ELSE IF fnode(n).pi.result.repr.tag # "Ok"
    THEN FOut(fr, VErr(fnode(n).pi.result.repr.val.ty))
    ELSE IF fnode(n).pi.result.repr.val.kind # "Type"
    THEN FOut(fr, VPanic("unimplemented"))
    ELSE Only({ IF h.ret.tag # "Ok" THEN h
                ELSE IF h.ret.val.kind # "Value" THEN FOut(h.fr, VPanic("unimplemented"))
                ELSE ternary_low(emit(h.fr, [op |-> "br",
                                             to |-> <<Block(fr.curr, "ternary_result")>>]),
                                 n, fr.curr)
              : h \in {Codegen_build(
                          [emit(fr, [op |-> "condbr",
                                     to |-> <<Block(fr.curr, "high"), Block(fr.curr, "low")>>])
                             EXCEPT !.blocks = @ + 3,
                                    !.head = Block(fr.curr, "high"),
                                    !.bpos = Block(fr.curr, "high")],
                          fnode(n).body)} }))

\* Steps 9 and 10 of build_ternary, after build_ternary_inline returned r
ternary_cleanup(fr0, r, fn) ==
    IF r.ret.tag = "Panic" THEN r
    ELSE IF r.ret.tag = "Ok" /\ r.ret.val.kind = "Function"
    THEN FOut(r.fr, VPanic("unimplemented"))
    ELSE FOut([(IF r.ret.tag = "Ok" THEN emit(r.fr, [op |-> "ret", to |-> <<>>]) ELSE r.fr)
                  EXCEPT !.curr = fr0.curr,
                         !.head = fr0.head,
                         !.bpos = position_at_old_head(fr0.head, r.fr.bpos),
                         !.locals = fr0.locals,
                         !.region = fr0.region],
              IF r.ret.tag = "Err" THEN r.ret ELSE Ok(Val_Function(ToString(fn))))

\* Steps 3 to 10 of build_ternary; the region stays taken
ternary_emit(fr, n) ==
    Only({ ternary_cleanup(fr, r, fr.functions)
         : r \in {build_ternary_inline(
                     [add_function(fr) EXCEPT !.counter = @ + 1,
                                              !.region = NullRegion,
                                              !.curr = fr.functions,
                                              !.head = Block(fr.functions, "entry"),
                                              !.locals = NoLocals],
                     n)} })

build_ternary(fr, n) ==
    Logged(fr, "build_ternary", n,
           IF fnode(n).low_ty # fnode(n).pi.result THEN FOut(fr, VPanic("unimplemented"))
           ELSE IF fnode(n).depth # 0 THEN FOut(fr, VPanic("unimplemented"))
           ELSE Only({ IF p.early THEN p.out ELSE ternary_emit(fr, n)
                     : p \in {pi_prelude([fr EXCEPT !.region = NullRegion],
                                         fnode(n).pi, fr.region)} }))

\* Steps 9 to 11 of build_gamma for one branch: the builder is not moved
gamma_cleanup(fr0, r, fn) ==
    IF r.ret.tag = "Panic" THEN r
    ELSE IF r.ret.tag = "Ok" /\ r.ret.val.kind # "Value"
    THEN FOut(r.fr, VPanic("Impossible representation"))
    ELSE FOut([r.fr EXCEPT !.curr = fr0.curr,
                           !.head = fr0.head,
                           !.locals = fr0.locals,
                           !.region = fr0.region],
              IF r.ret.tag = "Err" THEN r.ret ELSE Ok(Val_Function(ToString(fn))))

\* the branches of build_gamma in the frame fr1 of the new function fn
gamma_branches(fr0, fr1, n, fn) ==
    IF Len(fnode(n).branches) = 1
    THEN Only({ gamma_cleanup(fr0, r, fn)
              : r \in {build_lambda_inline(fr1, fnode(n).branches[1], TRUE)} })
    ELSE IF Len(fnode(n).branches) = 2
    THEN Only({ IF r.ret.tag = "Ok" THEN FOut(r.fr, VPanic("unimplemented")) ELSE r
              : r \in {build_lambda_inline([fr1 EXCEPT !.blocks = @ + 1,
                                                        !.bpos = Block(fn, "branch_0")],
                                           fnode(n).branches[1], FALSE)} })
    ELSE FOut(fr1, VErr("InternalError"))

\* Steps 3 to 11 of build_gamma; the region stays taken
gamma_emit(fr, n) ==
    gamma_branches(fr,
                   [add_function(fr) EXCEPT !.counter = @ + 1,
                                            !.region = NullRegion,
                                            !.curr = fr.functions,
                                            !.head = Block(fr.functions, "entry"),
                                            !.locals = NoLocals],
                   n, fr.functions)

build_gamma(fr, n) ==
    Logged(fr, "build_gamma", n,
           IF fnode(n).depth # 0 THEN FOut(fr, VPanic("unimplemented"))
           ELSE Only({ IF p.early THEN p.out ELSE gamma_emit(fr, n)
                     : p \in {pi_prelude([fr EXCEPT !.region = NullRegion],
                                         fnode(n).pi, fr.region)} }))

\* Build a function call with one argument
build_function_call(fr, f, arg) ==
    Only({ IF a.ret.tag # "Ok" THEN a
           ELSE CASE a.ret.val.kind = "Contr"    -> FOut(a.fr, Ok(Val_Contr))
                  [] a.ret.val.kind = "Unit"     -> FOut(a.fr, Ok(Val_Unit))
                  [] a.ret.val.kind = "Value"    -> FOut(a.fr, Ok(Val_Value("call")))
                  [] OTHER                       -> FOut(a.fr, VPanic("unimplemented"))
         : a \in {Codegen_build(fr, arg)} })

\* Build the application of f to the parameter
build_app(fr, f) ==
    Logged(fr, "build_app", f,
           IF fnode(f).kind # "Lambda" THEN FOut(fr, VPanic("unimplemented"))
           ELSE Only({ IF r.ret.tag # "Ok" THEN r
                       ELSE CASE r.ret.val.kind = "Contr"    -> FOut(r.fr, Ok(Val_Contr))
                              [] r.ret.val.kind = "Function" ->
                                   build_function_call(r.fr, r.ret.val.v, "param")
                              [] OTHER -> FOut(r.fr, VPanic("unimplemented"))
                     : r \in {build_lambda(fr, f)} }))

\* Codegen::build: the node lowered by the function of its variant; a
\* parameter is looked up in the symbol table
Codegen_build(fr, v) ==
    CASE fnode(v).kind = "Lambda"    -> build_lambda(fr, v)
      [] fnode(v).kind = "Ternary"   -> build_ternary(fr, v)
      [] fnode(v).kind = "Gamma"     -> build_gamma(fr, v)
      [] fnode(v).kind = "App"       -> build_app(fr, fnode(v).body)
      [] fnode(v).kind = "Bool"      -> FOut(fr, Ok(Val_Value("i1")))
      [] fnode(v).kind = "Contr"     -> FOut(fr, Ok(Val_Contr))
      [] fnode(v).kind = "Parameter" ->
            IF fr.locals \in {NoLocals, "noparams"} THEN FOut(fr, VErr("NotImplemented"))
            ELSE FOut(fr, Ok(Val_Value("param")))
      [] OTHER                       -> FOut(fr, VErr("NotImplemented"))

\* build_shim of a function whose return type is ret_kind
build_shim(fr, ret_kind) ==
    Logged(fr, "build_shim", ret_kind,
           IF ret_kind = "void" THEN FOut(fr, VPanic("unimplemented"))
           ELSE FOut([add_function(fr) EXCEPT
                         !.bpos = IF fr.head # NoBlock THEN fr.head
                                  ELSE Block(fr.functions, "entry")],
                     Ok(Val_Function(ToString(fr.functions)))))

VARIABLES
    call,       \* SpecPure: the pending or returned call of a representation function
    halted,     \* a panic has ended the lowering session
    reprs,      \* Codegen.reprs: TypeId -> Repr, Absent when there is no entry
    inserts,    \* history: how many times reprs.insert ran for each type
    asserted,   \* history: debug_assert_eq!(old, None) held at every insert
    first,      \* history: what the first successful repr of each type returned
    rcall,      \* history: the last call of repr and its outcome
    cg,         \* lib.rs Codegen: consts, counter, functions of the module
    ctx,        \* lib.rs: the LocalCtx the caller holds, NoCtx before it makes one
    ccall,      \* history: the last call on cg / ctx, with the state before it
    ncalls,     \* number of calls made in this session
    fr,         \* codegen/: the lowering frame of the Codegen, with the log of
                \* the calls made, nested ones included, by the last top-level call
    nfcalls,    \* number of top-level lowering calls made
    arena,      \* codegen/arena.rs: the Arena, its data and free_head
    acall,      \* history: the last call on the arena, with the arena before it
    live,       \* history: the table each index holds, NoTableId when it holds none
    freed,      \* history: the freed indices not taken again, the oldest first
    nops        \* number of calls made on the arena

pureVars == <<call>>

reprVars == <<reprs, inserts, asserted, first, rcall>>

constVars == <<cg, ctx, ccall, ncalls>>

frameVars == <<fr, nfcalls>>

arenaVars == <<arena, acall, live, freed, nops>>

vars == <<call, halted, reprs, inserts, asserted, first, rcall, cg, ctx, ccall, ncalls,
          fr, nfcalls, arena, acall, live, freed, nops>>

PureInit == call = [op |-> "none", done |-> FALSE]

ReprInit ==
    /\ reprs = [t \in TypeIds |-> Absent]
    /\ inserts = [t \in TypeIds |-> 0]
    /\ asserted = TRUE
    /\ first = [t \in TypeIds |-> Absent]
    /\ rcall = [op |-> "none"]

ConstInit ==
    /\ cg = Codegen_new
    /\ ctx = NoCtx
    /\ ccall = [op |-> "none"]
    /\ ncalls = 0

FrameInit ==
    /\ fr = Codegen_frame(FALSE)
    /\ nfcalls = 0

(***************************************************************************)
(* codegen/arena.rs: the arena of symbol tables.  data is a sequence of    *)
(* slots, index ix of the code at position ix + 1; a slot is Left(table)   *)
(* or Right(next), next the following index of the free list.  A table is  *)
(* known by a positive number.                                             *)
(***************************************************************************)
\* usize::MAX, the end of the free list, as the largest integer of the checker;
\* no index of an arena reaches it
usize_MAX == 2147483647

Left(table) == [left |-> TRUE, v |-> table]

Right(next) == [left |-> FALSE, v |-> next]

NoTableId == 0

\* Arena::new
Arena_new == [data |-> <<>>, free_head |-> usize_MAX]

\* an Option<table> or a returned index, or the panic that ended the call
AOut(a, ret, panic) == [arena |-> a, ret |-> ret, panic |-> panic]

\* Arena::capacity
capacity(a) == Len(a.data)

\* Arena::get (and get_mut): the table at ix, None (NoTableId) otherwise
Arena_get(a, ix) ==
    IF ix >= Len(a.data) THEN NoTableId
    ELSE IF a.data[ix + 1].left THEN a.data[ix + 1].v ELSE NoTableId

\* Arena::push_end
push_end(a, table) ==
    AOut([a EXCEPT !.data = Append(@, Left(table))], Len(a.data), FALSE)

\* a plausible slip: the free list is not advanced when its head is taken
push_keeps_head(a, table) ==
    IF a.free_head = usize_MAX THEN push_end(a, table)
    ELSE IF a.data[a.free_head + 1].left THEN AOut(a, usize_MAX, TRUE)
    ELSE AOut([a EXCEPT !.data[a.free_head + 1] = Left(table)], a.free_head, FALSE)

\* Arena::push
push(a, table) ==
    IF a.free_head = usize_MAX THEN push_end(a, table)
    ELSE IF a.data[a.free_head + 1].left THEN AOut(a, usize_MAX, TRUE)
    ELSE AOut([a EXCEPT !.data[a.free_head + 1] = Left(table),
                        !.free_head = a.data[a.free_head + 1].v],
              a.free_head, FALSE)

\* Arena::free: `self.data[ix]` panics when ix = self.data.len()
free(a, ix) ==
    IF ix > Len(a.data) THEN AOut(a, NoTableId, FALSE)
    ELSE IF ix = Len(a.data) THEN AOut(a, NoTableId, TRUE)
    ELSE IF ~a.data[ix + 1].left THEN AOut(a, NoTableId, FALSE)
    ELSE AOut([a EXCEPT !.data[ix + 1] = Right(a.free_head), !.free_head = ix],
              a.data[ix + 1].v, FALSE)

ArenaInit ==
    /\ arena = Arena_new
    /\ acall = [op |-> "none", arg |-> 0, ret |-> 0, panic |-> FALSE, before |-> Arena_new,
                live |-> <<>>, freed |-> <<>>]
    /\ live = <<>>
    /\ freed = <<>>
    /\ nops = 0

(***************************************************************************)
(* SpecRepr: any sequence of repr calls on one Codegen.                    *)
(***************************************************************************)
InitRepr == PureInit /\ ReprInit /\ ConstInit /\ ArenaInit /\ FrameInit /\ halted = FALSE

DoRepr(t) ==
    LET o == repr(reprs, t) IN
    /\ ~halted
    /\ reprs' = o.reprs
    /\ inserts' = IF o.inserted THEN [inserts EXCEPT ![t] = @ + 1] ELSE inserts
    /\ asserted' = (asserted /\ (o.inserted => o.old = Absent))
    /\ first' = IF o.ret.tag = "Ok" /\ first[t] = Absent
                THEN [first EXCEPT ![t] = o.ret.val]
                ELSE first
    /\ rcall' = [op |-> "repr", t |-> t, ret |-> o.ret, hit |-> o.hit,
                 inserted |-> o.inserted, before |-> reprs[t]]
    /\ halted' = (o.ret.tag = "Panic")
    /\ UNCHANGED <<pureVars, constVars, frameVars, arenaVars>>

NextRepr == \E t \in TypeIds : DoRepr(t)

SpecRepr == InitRepr /\ [][NextRepr]_vars

(***************************************************************************)
(* SpecConst: a session on one lib.rs Codegen: compile_const on any value, *)
(* and build on any value in the one local context the caller makes with   *)
(* LocalCtx::new (no parameter bound) or const_pi_prototype (parameters    *)
(* bound).                                                                 *)
(***************************************************************************)
InitConst == PureInit /\ ReprInit /\ ConstInit /\ ArenaInit /\ FrameInit /\ halted = FALSE

Called(op, v, ret) ==
    [op |-> op, v |-> v, ret |-> ret, cg_before |-> cg, ctx_before |-> ctx]

DoLocalCtxNew(region_depth) ==
    /\ ~halted /\ ncalls < MaxCalls /\ ~ctx.live
    /\ ctx' = LocalCtx_new(region_depth, -1, {})
    /\ ccall' = Called("LocalCtx::new", "", Ok(Local_Unit))
    /\ ncalls' = ncalls + 1
    /\ UNCHANGED <<cg, halted, pureVars, reprVars, frameVars, arenaVars>>

DoConstPiPrototype(v) ==
    \E p \in {const_pi_prototype(cg, as_enum(v))} :
    /\ ~halted /\ ncalls < MaxCalls /\ ~ctx.live
    /\ as_enum(v).variant = "Lambda"
    /\ cg' = p.cg
    /\ ctx' = p.ctx
    /\ ccall' = Called("const_pi_prototype", v,
                       IF p.proto = "Err" THEN p.err ELSE Ok(Local_Unit))
    /\ ncalls' = ncalls + 1
    /\ UNCHANGED <<halted, pureVars, reprVars, frameVars, arenaVars>>

DoCompileConst(v) ==
    \E c \in {compile_const(cg, v)} :
    /\ ~halted /\ ncalls < MaxCalls
    /\ cg' = c.cg
    /\ ccall' = Called("compile_const", v, c.ret)
    /\ halted' = (c.ret.tag = "Panic")
    /\ ncalls' = ncalls + 1
    /\ UNCHANGED <<ctx, pureVars, reprVars, frameVars, arenaVars>>

DoBuild(v) ==
    \E b \in {build(cg, ctx, v)} :
    /\ ~halted /\ ncalls < MaxCalls /\ ctx.live
    /\ cg' = b.cg
    /\ ctx' = b.ctx
    /\ ccall' = Called("build", v, b.ret)
    /\ halted' = (b.ret.tag = "Panic")
    /\ ncalls' = ncalls + 1
    /\ UNCHANGED <<pureVars, reprVars, frameVars, arenaVars>>

NextConst ==
    \/ \E d \in {1, 2} : DoLocalCtxNew(d)
    \/ \E v \in ValIds : DoConstPiPrototype(v)
    \/ \E v \in ValIds : DoCompileConst(v)
    \/ \E v \in ValIds : DoBuild(v)

SpecConst == InitConst /\ [][NextConst]_vars

(***************************************************************************)
(* SpecFrame: a session of top-level lowering calls on one Codegen of the  *)
(* codegen/ modules, built with or without debug assertions: build_lambda, *)
(* build_ternary and build_gamma on the nodes above, build_shim on a       *)
(* function of the module.                                                 *)
(***************************************************************************)
InitFrame ==
    /\ PureInit /\ ReprInit /\ ConstInit /\ ArenaInit /\ halted = FALSE
    /\ \E debug \in BOOLEAN : fr = Codegen_frame(debug)
    /\ nfcalls = 0

\* the top-level call ended as o
Lowered(o) ==
    /\ fr' = o.fr
    /\ halted' = (o.ret.tag = "Panic")
    /\ nfcalls' = nfcalls + 1
    /\ UNCHANGED <<pureVars, reprVars, constVars, arenaVars>>

DoBuildLambda(n) ==
    /\ ~halted /\ nfcalls < MaxLowerings
    /\ \E o \in {build_lambda([fr EXCEPT !.log = <<>>, !.code = <<>>], n)} : Lowered(o)

DoBuildTernary(n) ==
    /\ ~halted /\ nfcalls < MaxLowerings
    /\ \E o \in {build_ternary([fr EXCEPT !.log = <<>>, !.code = <<>>], n)} : Lowered(o)

DoBuildGamma(n) ==
    /\ ~halted /\ nfcalls < MaxLowerings
    /\ \E o \in {build_gamma([fr EXCEPT !.log = <<>>, !.code = <<>>], n)} : Lowered(o)

DoBuildShim(ret_kind) ==
    /\ ~halted /\ nfcalls < MaxLowerings
    /\ fr.functions > 0
    /\ \E o \in {build_shim([fr EXCEPT !.log = <<>>, !.code = <<>>], ret_kind)} : Lowered(o)

NextFrame ==
    \/ \E n \in LambdaIds : DoBuildLambda(n)
    \/ \E n \in TernaryIds : DoBuildTernary(n)
    \/ \E n \in GammaIds : DoBuildGamma(n)
    \/ \E k \in {"int", "struct", "void"} : DoBuildShim(k)

SpecFrame == InitFrame /\ [][NextFrame]_vars

(***************************************************************************)
(* SpecPure: the representation functions applied to inputs drawn from the *)
(* bounded sets above.  An initial state holds the pending call; the       *)
(* action of the function applies it and records what it returned.         *)
(***************************************************************************)
Pending(op, arg) == [op |-> op, arg |-> arg, done |-> FALSE]

Returned(c, ret) == [op |-> c.op, arg |-> c.arg, done |-> TRUE, ret |-> ret]

InitPure ==
  /\ ReprInit /\ ConstInit /\ ArenaInit /\ FrameInit /\ halted = FALSE
  /\
    \/ \E n \in Cards : call = Pending("repr_finite", n)
    \/ \E n \in Cards : call = Pending("compile_finite", n)
    \/ \E p \in Products : call = Pending("repr_product", p)
    \/ \E p \in Products : call = Pending("compile_product", p)
    \/ \E t \in Products : call = Pending("build_tuple", t)
    \/ \E pi \in Pis : call = Pending("build_function_repr", pi)

DoReprFinite ==
    /\ call = Pending("repr_finite", call.arg)
    /\ call' = Returned(call, repr_finite(call.arg))
    /\ UNCHANGED <<halted, reprVars, constVars, frameVars, arenaVars>>

DoCompileFinite ==
    /\ call = Pending("compile_finite", call.arg)
    /\ call' = Returned(call, compile_finite(call.arg))
    /\ UNCHANGED <<halted, reprVars, constVars, frameVars, arenaVars>>

DoReprProduct ==
    /\ call = Pending("repr_product", call.arg)
    /\ call' = Returned(call, repr_product(call.arg))
    /\ UNCHANGED <<halted, reprVars, constVars, frameVars, arenaVars>>

DoCompileProduct ==
    /\ call = Pending("compile_product", call.arg)
    /\ call' = Returned(call, compile_product(call.arg))
    /\ UNCHANGED <<halted, reprVars, constVars, frameVars, arenaVars>>

DoBuildTuple ==
    /\ call = Pending("build_tuple", call.arg)
    /\ call' = Returned(call, build_tuple(call.arg))
    /\ UNCHANGED <<halted, reprVars, constVars, frameVars, arenaVars>>

DoBuildFunctionRepr ==
    /\ call = Pending("build_function_repr", call.arg)
    /\ call' = Returned(call, build_function_repr(call.arg))
    /\ UNCHANGED <<halted, reprVars, constVars, frameVars, arenaVars>>

NextPure ==
    \/ DoReprFinite
    \/ DoCompileFinite
    \/ DoReprProduct
    \/ DoCompileProduct
    \/ DoBuildTuple
    \/ DoBuildFunctionRepr

SpecPure == InitPure /\ [][NextPure]_vars
(***************************************************************************)
(* codegen/function.rs, build_app on a value of product type: projection   *)
(* by one index.  A ProductRepr of repr.rs holds its mapping as an IxMap   *)
(* (a Vec<i32> filled by push_ix and push_prop); Repr of repr.rs has no    *)
(* Irrep variant, so the products projected have no such field.  The       *)
(* aggregate is a tuple, lowered by build_tuple; a member is known by its  *)
(* logical position.                                                       *)
(***************************************************************************)
\* ProductRepr.mapping as an IxMap: push_ix(slot) for a physical member,
\* push_prop() for an erased one
RECURSIVE IxMap_of(_, _, _)
IxMap_of(mapping, i, m) ==
    IF i > Len(mapping) THEN m
    ELSE IxMap_of(mapping, i + 1,
                  IF mapping[i].some THEN push_ix(m, U32(mapping[i].ix)) ELSE push_prop(m))

\* `ix as u32` of a stored i32: the same 32 bits
as_u32(ix) == ix[1] + ix[2] * 2^16

\* ReprIx::Val(ix), ix as its 32 bits, and ReprIx::Prop
ReprIx_Val(ix) == [prop |-> FALSE, ix |-> ix]

ReprIx_Prop == [prop |-> TRUE, ix |-> U32(0)]

\* ReprIx::from(i32): PROP_IX is Prop, any other value is Val(ix as u32)
ReprIx_from(ix) == IF ix = PROP_IX THEN ReprIx_Prop ELSE ReprIx_Val(ix)

\* IxMap::push
IxMap_push(m, ix) == IF ix.prop THEN push_prop(m) ELSE push_ix(m, ix.ix)

\* IxMap::iter
IxMap_iter(m) == [k \in 1..Len(m) |-> ReprIx_from(m[k])]

\* Option<u32> with the slot as its 32 bits
None32 == [some |-> FALSE, ix |-> U32(0)]

\* IxMap::get, the slot as its 32 bits: None past the end and for an entry
\* that reads as Prop
IxMap_get_bits(m, ix) ==
    IF ix >= Len(m) THEN None32
    ELSE IF ReprIx_from(m[ix + 1]).prop THEN None32
    ELSE [some |-> TRUE, ix |-> ReprIx_from(m[ix + 1]).ix]

\* IxMap::get: None past the end and for the sentinel, else Some(slot)
IxMap_get(m, ix) ==
    IF IxMap_get_bits(m, ix).some THEN Some(as_u32(IxMap_get_bits(m, ix).ix)) ELSE None

\* the pushes of the entries i.. on the map m: an entry is a ReprIx and the
\* method that pushes it
RECURSIVE IxMap_pushes(_, _, _)
IxMap_pushes(m, entries, i) ==
    IF i > Len(entries) THEN m
    ELSE IxMap_pushes(CASE entries[i].via = "push_ix"   -> push_ix(m, entries[i].e.ix)
                        [] entries[i].via = "push_prop" -> push_prop(m)
                        [] OTHER                        -> IxMap_push(m, entries[i].e),
                      entries, i + 1)

\* the map after the pushes, read back by iter and by get at every index
\* up to one past the end
IxMap_round_trip(entries) ==
    [iter |-> IxMap_iter(IxMap_pushes(<<>>, entries, 1)),
     get  |-> [j \in 1..(Len(entries) + 1) |->
                 IxMap_get_bits(IxMap_pushes(<<>>, entries, 1), j - 1)]]

\* slot indices as 32 bits: 0, 1, 2^31 - 1, 2^31, 2^32 - 2, 2^32 - 1
Slots32 == {<<0, 0>>, <<1, 0>>, <<LimbMax, 32767>>, <<0, 32768>>,
            <<LimbMax - 1, LimbMax>>, <<LimbMax, LimbMax>>}

IxEntries ==
    {[via |-> v, e |-> ReprIx_Val(n)] : v \in {"push_ix", "push"}, n \in Slots32}
    \cup {[via |-> v, e |-> ReprIx_Prop] : v \in {"push_prop", "push"}}

\* the members build_tuple packs into the struct, in slot order, each known
\* by its logical position (0-based)
RECURSIVE tuple_values(_, _, _)
tuple_values(mapping, i, values) ==
    IF i > Len(mapping) THEN values
    ELSE tuple_values(mapping, i + 1,
                      IF mapping[i].some THEN Append(values, i - 1) ELSE values)

NoMember == -1

\* what a projection did: its result, how many times the aggregate operand
\* was lowered, the instructions emitted and the member extracted
AppOut(ret, built, instrs, element) ==
    [ret |-> ret, built |-> built, instrs |-> instrs, element |-> element]

\* build_extract_value(struct_value, repr_ix, "idx").expect(..)
extract_value(t, p, repr_ix) ==
    IF repr_ix >= Len(tuple_values(p.mapping, 1, <<>>))
    THEN AppOut(VPanic("Internal error: valid index"), 1, <<>>, NoMember)
    ELSE AppOut(Ok(Val_Value("idx")), 1, <<<<"extractvalue", repr_ix>>>>,
                tuple_values(p.mapping, 1, <<>>)[repr_ix + 1])

\* a plausible slip (the order of lib.rs): the aggregate is lowered before
\* the mapping is consulted
app_project_builds_first(t, p, ix) ==
    IF build_tuple(t).tag # "Ok"
    THEN AppOut(build_tuple(t), 1, <<>>, NoMember)
    ELSE IF ~IxMap_get(IxMap_of(p.mapping, 1, <<>>), ix).some
    THEN AppOut(Ok(Val_Unit), 1, <<>>, NoMember)
    ELSE IF build_tuple(t).val # Val_Value("struct")
    THEN AppOut(VPanic("Internal error: Repr::Product guarantees StructValue"), 1, <<>>,
                NoMember)
    ELSE extract_value(t, p, IxMap_get(IxMap_of(p.mapping, 1, <<>>), ix).ix)

\* the Repr::Product arm: one index argument ix applied to the tuple t
app_project(t, p, ix) ==
    IF ~IxMap_get(IxMap_of(p.mapping, 1, <<>>), ix).some
    THEN AppOut(Ok(Val_Unit), 0, <<>>, NoMember)
    ELSE IF build_tuple(t).tag # "Ok"
    THEN AppOut(build_tuple(t), 1, <<>>, NoMember)
    ELSE IF build_tuple(t).val = Val_Contr
    THEN AppOut(Ok(Val_Contr), 1, <<>>, NoMember)
    ELSE IF build_tuple(t).val # Val_Value("struct")
    THEN AppOut(VPanic("Internal error: Repr::Product guarantees StructValue"), 1, <<>>,
                NoMember)
    ELSE extract_value(t, p, IxMap_get(IxMap_of(p.mapping, 1, <<>>), ix).ix)

\* build_app(f, [ix]) for f a tuple t of product type
build_app_product(t, ix) ==
    IF repr_product(t).tag # "Ok"
    THEN AppOut(VErr(repr_product(t).val.ty), 0, <<>>, NoMember)
    ELSE CASE repr_product(t).val.kind = "Prop"    -> AppOut(Ok(Val_Unit), 0, <<>>, NoMember)
           [] repr_product(t).val.kind = "Empty"   -> AppOut(Ok(Val_Contr), 0, <<>>, NoMember)
           [] repr_product(t).val.kind = "Product" -> app_project(t, repr_product(t).val, ix)
           [] OTHER -> AppOut(VPanic("unimplemented"), 0, <<>>, NoMember)

\* the tuples projected and the indices applied to them
AppProducts == {t \in Products : \A k \in 1..Len(t) : t[k] # F_irrep}

(***************************************************************************)
(* codegen/function.rs, build_function_call on an argument list.  An       *)
(* argument is drawn as what self.build returns for it; a lowered value is *)
(* known by the position of its argument.  The outcome holds the result,   *)
(* the arguments lowered, in order, and the call instructions emitted,     *)
(* each as its operand list.                                               *)
(***************************************************************************)
ArgOutcomes ==
    {Ok(Val_Value("arg")), Ok(Val_Unit), Ok(Val_Contr), Ok(Val_Function("g")),
     VErr("NotImplemented")}

ArgLists == SeqsUpTo(ArgOutcomes, MaxFields)

CallOut(ret, lowered, calls) == [ret |-> ret, lowered |-> lowered, calls |-> calls]

\* builder.build_call(f, &this_args, "call").try_as_basic_value().left()
build_call(returns_void, this_args, lowered) ==
    CallOut(IF returns_void THEN Ok(Val_Unit) ELSE Ok(Val_Value("call")),
            lowered, <<this_args>>)

\* the argument loop from arguments i on, this_args holding the operands so
\* far, and the call after it
RECURSIVE call_args(_, _, _, _)
call_args(args, returns_void, i, this_args) ==
    IF i > Len(args)
    THEN build_call(returns_void, this_args, [k \in 1..Len(args) |-> k])
    ELSE IF args[i].tag # "Ok" THEN CallOut(args[i], [k \in 1..i |-> k], <<>>)
    ELSE CASE args[i].val.kind = "Contr" ->
                CallOut(Ok(Val_Contr), [k \in 1..i |-> k], <<>>)
           [] args[i].val.kind = "Unit" ->
                CallOut(Ok(Val_Unit), [k \in 1..i |-> k], <<>>)
           [] args[i].val.kind = "Value" ->
                call_args(args, returns_void, i + 1, Append(this_args, i))
           [] OTHER ->
                CallOut(VPanic("Higher order functions not yet implemented!"),
                        [k \in 1..i |-> k], <<>>)

\* build_function_call(f, args) for f returning a value or nothing
build_function_call_args(args, returns_void) == call_args(args, returns_void, 1, <<>>)

(***************************************************************************)
(* codegen/logical.rs, build_logical_expr.  A Logical of rain_ir is an     *)
(* arity n and a truth table of 2^n bits; bit j is the value on the        *)
(* arguments whose bits, first argument most significant, spell j.  An     *)
(* argument is drawn as the value self.build returns for it: a boolean     *)
(* parameter or the result of instructions over the parameters.  The value *)
(* built is the expression that the emitted instructions compute.          *)
(***************************************************************************)
Logical(arity, data) == [arity |-> arity, data |-> data]

Logicals(n) == {Logical(n, d) : d \in 0..(2^(2^n) - 1)}

bit(data, j) == (data \div 2^j) % 2 = 1

\* Logical::get_const: Some(c) when the table is constant
get_const(l) ==
    IF l.data = 0 THEN [some |-> TRUE, c |-> FALSE]
    ELSE IF l.data = 2^(2^l.arity) - 1 THEN [some |-> TRUE, c |-> TRUE]
    ELSE [some |-> FALSE, c |-> FALSE]

\* Logical::apply on an operation of arity above 1: the half of the table
\* where the first argument is value
apply(l, value) ==
    Logical(l.arity - 1,
            IF value THEN l.data \div 2^(2^(l.arity - 1))
            ELSE l.data % 2^(2^(l.arity - 1)))

logical_Not == Logical(1, 1)

logical_Id == Logical(1, 2)

logical_And == Logical(2, 8)

logical_Or == Logical(2, 14)

logical_Xor == Logical(2, 6)

\* the values built: a constant, a parameter, the result of an instruction
E_const(c) == [op |-> "const", c |-> c]

E_arg(k) == [op |-> "arg", k |-> k]

E_not(a) == [op |-> "not", a |-> a]

E_bin(op, a, b) == [op |-> op, a |-> a, b |-> b]

LOk(e) == [tag |-> "Ok", expr |-> e]

LPanic(msg) == [tag |-> "Panic", expr |-> E_const(FALSE)]

\* a plausible slip: the low branch is gated by select, not by its negation
logical_split_nonot(high, low, select) ==
    IF high.tag # "Ok" THEN high
    ELSE IF low.tag # "Ok" THEN low
    ELSE LOk(E_bin("or", E_bin("and", high.expr, select),
                         E_bin("and", low.expr, select)))

\* is_high = high & select; nsel = !select; is_low = low & nsel;
\* psplit = is_high | is_low
logical_split(high, low, select) ==
    IF high.tag # "Ok" THEN high
    ELSE IF low.tag # "Ok" THEN low
    ELSE LOk(E_bin("or", E_bin("and", high.expr, select),
                         E_bin("and", low.expr, E_not(select))))

\* a plausible slip: the recursive calls are given the whole argument list
rest_args_all(args) == args

\* &args[1..]
rest_args(args) == Tail(args)

\* build_logical_expr(l, args), args the values of the arguments
RECURSIVE Codegen_build_logical_expr(_, _)
Codegen_build_logical_expr(l, args) ==
    IF l.arity # Len(args) THEN LPanic("unimplemented")
    ELSE IF get_const(l).some THEN LOk(E_const(get_const(l).c))
    ELSE IF l.arity = 1
    THEN IF l = logical_Not THEN LOk(E_not(args[1]))
         ELSE IF l = logical_Id THEN LOk(args[1])
         ELSE LPanic("Invalid non-constant unary operation!")
    ELSE IF l = logical_And THEN LOk(E_bin("and", args[1], args[2]))
    ELSE IF l = logical_Or THEN LOk(E_bin("or", args[1], args[2]))
    ELSE IF l = logical_Xor THEN LOk(E_bin("xor", args[1], args[2]))
    ELSE logical_split(Codegen_build_logical_expr(apply(l, TRUE), rest_args(args)),
                       Codegen_build_logical_expr(apply(l, FALSE), rest_args(args)),
                       args[1])

\* history: the calls of build_logical_expr that build_logical_expr(l, args)
\* makes, itself first, each with its depth in the recursion
RECURSIVE logical_calls(_, _, _)
logical_calls(l, args, depth) ==
    <<[l |-> l, args |-> args, depth |-> depth]>>
    \o (IF l.arity # Len(args) \/ get_const(l).some \/ l.arity = 1
            \/ l \in {logical_And, logical_Or, logical_Xor}
        THEN <<>>
        ELSE logical_calls(apply(l, TRUE), rest_args(args), depth + 1)
             \o (IF Codegen_build_logical_expr(apply(l, TRUE), rest_args(args)).tag = "Ok"
                 THEN logical_calls(apply(l, FALSE), rest_args(args), depth + 1)
                 ELSE <<>>))

\* the body of the mux lambda of the tests,
\* (#or (#and select high) (#and (#not select) low)), built inside out
build_mux ==
    Codegen_build_logical_expr(
        logical_Or,
        << Codegen_build_logical_expr(logical_And, <<E_arg(1), E_arg(2)>>).expr,
           Codegen_build_logical_expr(
               logical_And,
               << Codegen_build_logical_expr(logical_Not, <<E_arg(1)>>).expr,
                  E_arg(3) >>).expr >>)

\* what the instructions of e compute when parameter k holds env[k]
RECURSIVE eval(_, _)
eval(e, env) ==
    CASE e.op = "const" -> e.c
      [] e.op = "arg"   -> env[e.k]
      [] e.op = "not"   -> ~eval(e.a, env)
      [] e.op = "and"   -> eval(e.a, env) /\ eval(e.b, env)
      [] e.op = "or"    -> eval(e.a, env) \/ eval(e.b, env)
      [] e.op = "xor"   -> eval(e.a, env) # eval(e.b, env)

(***************************************************************************)
(* codegen/finite.rs build_index, lib.rs compile_index, codegen/bits.rs    *)
(* repr_bitsty and build_bits, and the Add arm of build_app: integer       *)
(* constants.  A constant is its LLVM type and its value, a u128 in limbs. *)
(***************************************************************************)
\* the low w bits of a u128, 0 <= w <= 128
TruncBits(a, w) ==
    [i \in Limbs |-> IF 16 * i <= w THEN a[i]
                     ELSE IF 16 * (i - 1) >= w THEN 0
                     ELSE a[i] % 2^(w - 16 * (i - 1))]

\* `x as u64`
as_u64(a) == TruncBits(a, 64)

\* x <= u64::MAX as u128
FitsU64(a) == \A i \in 5..8 : a[i] = 0

RECURSIVE Carry(_, _, _)
Carry(a, b, i) == IF i = 0 THEN 0 ELSE (a[i] + b[i] + Carry(a, b, i - 1)) \div 2^16

\* a + b modulo 2^128
AddU(a, b) == [i \in Limbs |-> (a[i] + b[i] + Carry(a, b, i - 1)) % 2^16]

\* the bit width of an LLVM integer type
bit_width(ty) ==
    CASE ty = "i1" -> 1 [] ty = "i8" -> 8 [] ty = "i16" -> 16
      [] ty = "i32" -> 32 [] ty = "i64" -> 64 [] ty = "i128" -> 128

Val_Int(ty, value) == [kind |-> "Value", v |-> "int", ty |-> ty, value |-> value]

\* IntType::const_int(value: u64, false): the value cut to the type's width
const_int(ty, value) == Val_Int(ty, TruncBits(as_u64(value), bit_width(ty)))

\* Compile an index into an LLVM value
build_index(card, ix) ==
    CASE repr_finite(card).kind = "Empty" -> Ok(Val_Contr)
      [] repr_finite(card).kind = "Prop"  -> Ok(Val_Unit)
      [] repr_finite(card).kind = "Type"  ->
            IF FitsU64(ix) THEN Ok(const_int(repr_finite(card).ty, ix))
            ELSE VPanic("Big constants...")
      [] OTHER -> VPanic("unreachable")

\* const_int_arbitrary_precision(&[(v >> 64) as u64, v as u64]): the words
\* are taken least significant first
swap_words(a) == [i \in Limbs |-> IF i <= 4 THEN a[i + 4] ELSE a[i - 4]]

\* lib.rs: Compile an index
compile_index(type_bound, this_value) ==
    IF type_bound = FromNat(0) THEN VPanic("Unable to compile index of type Finite(0)")
    ELSE IF ~Lt(this_value, type_bound) THEN VPanic("not a valid instance")
    ELSE IF type_bound = FromNat(1) THEN Ok(Val_Unit)
    ELSE IF type_bound = FromNat(2) THEN Ok(const_int("i1", this_value))
    ELSE IF Lt(type_bound, Shl1(8)) THEN Ok(const_int("i8", this_value))
    ELSE IF Lt(type_bound, Shl1(16)) THEN Ok(const_int("i16", this_value))
    ELSE IF Lt(type_bound, Shl1(32)) THEN Ok(const_int("i32", this_value))
    ELSE IF Lt(type_bound, Shl1(64)) THEN Ok(const_int("i64", this_value))
    ELSE Ok(Val_Int("i128", swap_words(this_value)))

\* Get the representation for a bitsTy type
repr_bitsty(width) ==
    IF width = 0 THEN Ok(Repr_Empty)
    ELSE IF width = 1 THEN Ok(Repr_Type("i1"))
    ELSE IF width <= 8 THEN Ok(Repr_Type("i8"))
    ELSE IF width <= 16 THEN Ok(Repr_Type("i16"))
    ELSE IF width <= 32 THEN Ok(Repr_Type("i32"))
    ELSE IF width <= 64 THEN Ok(Repr_Type("i64"))
    ELSE IF width <= 128 THEN Ok(Repr_Type("i128"))
    ELSE Panic("unimplemented")

\* `b.data() < (1 << width)`: "lt" or "ge"; `1 << width` on u128 with
\* width = 128 is "overflow" (a panic) when the build checks overflow, else
\* the shift amount wraps to 0
bits_in_range(width, data, overflow_checks) ==
    IF width >= 128
    THEN IF overflow_checks THEN "overflow"
         ELSE IF Lt(data, Shl1(width % 128)) THEN "lt" ELSE "ge"
    ELSE IF Lt(data, Shl1(width)) THEN "lt" ELSE "ge"

\* compile a bits vector of type BitsTy(width)
build_bits(width, data, overflow_checks) ==
    IF repr_bitsty(width).tag # "Ok" THEN VPanic("unimplemented")
    ELSE IF repr_bitsty(width).val.kind = "Empty" THEN Ok(Val_Contr)
    ELSE CASE bits_in_range(width, data, overflow_checks) = "overflow" ->
                VPanic("attempt to shift left with overflow")
           [] bits_in_range(width, data, overflow_checks) = "lt" ->
                Ok(const_int(repr_bitsty(width).val.ty, data))
           [] OTHER -> VPanic("The width of Bits doesn't match with its type")

\* builder.build_int_add on two constants of one type: the folded constant
build_int_add(int_1, int_2) ==
    Val_Int(int_1.ty, TruncBits(AddU(int_1.value, int_2.value), bit_width(int_1.ty)))

\* build_app(Add, [a, b]) for two Bits literals of one width
build_app_add(width, a, b, overflow_checks) ==
    IF build_bits(width, a, overflow_checks).tag # "Ok"
    THEN build_bits(width, a, overflow_checks)
    ELSE IF build_bits(width, b, overflow_checks).tag # "Ok"
    THEN build_bits(width, b, overflow_checks)
    ELSE IF build_bits(width, a, overflow_checks).val.kind # "Value"
    THEN VPanic("Add only applies to bits")
    ELSE Ok(build_int_add(build_bits(width, a, overflow_checks).val,
                          build_bits(width, b, overflow_checks).val))

(***************************************************************************)
(* codegen/shim.rs, build_shim on the signature of the wrapped function f. *)
(* A type is "int", "struct", "ptr" (a pointer type of f itself),          *)
(* "ptr_struct" (s.ptr_type of a struct type of f) or "float" (any other   *)
(* basic type); f returns one of these or "void".  The values of the body  *)
(* are the shim's parameters, the values loaded through them, the result   *)
(* of the inner call and the i32 constant 0.                               *)
(***************************************************************************)
FnType(params, ret) == [params |-> params, ret |-> ret]

\* the loop over f_type.get_param_types()
shim_args_type(f_args_type) ==
    [i \in 1..Len(f_args_type) |->
        CASE f_args_type[i] = "struct" -> "ptr_struct"
          [] f_args_type[i] = "int"    -> "int"
          [] f_args_type[i] = "ptr"    -> "ptr"
          [] OTHER                     -> "unimplemented"]

is_return_converted(f) == f.ret = "struct"

\* ret_type of the wrapper
shim_ret_type(f) ==
    CASE f.ret = "struct" -> "i32"
      [] f.ret = "int"    -> "int"
      [] f.ret = "ptr"    -> "ptr"
      [] OTHER            -> "unimplemented"

\* wrapper_f_type: the parameter types, the out-pointer last when the return
\* is converted, and the return type
wrapper_f_type(f) ==
    FnType(IF is_return_converted(f)
           THEN Append(shim_args_type(f.params), "ptr_struct")
           ELSE shim_args_type(f.params),
           shim_ret_type(f))

ShimParam(i) == [v |-> "param", i |-> i]

ShimLoad(i) == [v |-> "load", i |-> i]

\* args: wrapper_f.get_params(), without the last one when the return is converted
shim_args(f) ==
    IF is_return_converted(f)
    THEN SubSeq(wrapper_f_type(f).params, 1, Len(wrapper_f_type(f).params) - 1)
    ELSE wrapper_f_type(f).params

\* a plausible slip: no parameter is loaded
inner_call_args_noload(f) == [i \in 1..Len(shim_args(f)) |-> ShimParam(i)]

\* the loop over args: an IntValue is pushed, a PointerValue is loaded
inner_call_args(f) ==
    [i \in 1..Len(shim_args(f)) |->
        IF shim_args(f)[i] = "int" THEN ShimParam(i) ELSE ShimLoad(i)]

RECURSIVE shim_loads(_, _)
shim_loads(operands, i) ==
    IF i > Len(operands) THEN <<>>
    ELSE (IF operands[i].v = "load" THEN <<[op |-> "load", ptr |-> ShimParam(i)]>> ELSE <<>>)
         \o shim_loads(operands, i + 1)

ShimOut(ret, ty, body) == [ret |-> ret, ty |-> ty, body |-> body]

\* the body of the wrapper: the loads, the call, the store and the return
shim_body(f) ==
    shim_loads(inner_call_args(f), 1)
    \o <<[op |-> "call", args |-> inner_call_args(f)]>>
    \o (IF is_return_converted(f)
        THEN <<[op |-> "store", ptr |-> ShimParam(Len(wrapper_f_type(f).params)),
                value |-> "call"],
               [op |-> "ret", value |-> "i32 0"]>>
        ELSE <<[op |-> "ret", value |-> "call"]>>)

build_shim_fn(f) ==
    IF \E i \in 1..Len(f.params) : shim_args_type(f.params)[i] = "unimplemented"
    THEN ShimOut(VPanic("unimplemented"), FnType(<<>>, "void"), <<>>)
    ELSE IF f.ret = "void"
    THEN ShimOut(VPanic("Void return function not implemented"), FnType(<<>>, "void"), <<>>)
    ELSE IF shim_ret_type(f) = "unimplemented"
    THEN ShimOut(VPanic("unimplemented"), FnType(<<>>, "void"), <<>>)
    ELSE ShimOut(Ok(Val_Function("shim")), wrapper_f_type(f), shim_body(f))

\* the signatures drawn for the wrapped function
FnTypes ==
    {FnType(ps, r) : ps \in SeqsUpTo({"int", "struct", "ptr", "float"}, MaxFields),
                     r \in {"int", "struct", "ptr", "float", "void"}}

(***************************************************************************)
(* codegen/function.rs, build_lambda_inline on the symbol table.  The      *)
(* table self.locals is a chain of layers, the innermost last, the empty   *)
(* chain standing for None; a layer is a set of <<value, Val>> bindings.   *)
(* The depth of self.curr_region, the outcome of gcr and what lowering the *)
(* body inserts into the table are drawn as inputs.                        *)
(***************************************************************************)
NoTable == <<>>

\* SymbolTable::prev: the chain without its innermost layer, None for the last one
SymbolTable_prev(t) == SubSeq(t, 1, Len(t) - 1)

\* SymbolTable::extend: a new empty innermost layer
SymbolTable_extend(t) == Append(t, {})

\* SymbolTable::insert: the binding goes into the innermost layer
SymbolTable_insert(t, key, val) ==
    [t EXCEPT ![Len(t)] = {b \in @ : b[1] # key} \cup {<<key, val>>}]

ScopeOut(ret, locals, inner) == [ret |-> ret, locals |-> locals, inner |-> inner]

Table(panic, t) == [panic |-> panic, t |-> t]

\* Step 2: base after dd calls of prev(); a panic when a layer is missing
RECURSIVE pop_layers(_, _)
pop_layers(base, dd) ==
    IF dd = 0 THEN Table(FALSE, base)
    ELSE IF base = NoTable THEN Table(TRUE, NoTable)
    ELSE pop_layers(SymbolTable_prev(base), dd - 1)

\* the new table: base.clone().extend(), or SymbolTable::default()
new_table(base) == IF base = NoTable THEN <<{}>> ELSE SymbolTable_extend(base)

\* Step 3: the parameters i.. registered in the table
RECURSIVE register_parameters(_, _, _, _)
register_parameters(locals, nparams, parameter_values, i) ==
    IF i > Len(parameter_values) THEN Table(FALSE, locals)
    ELSE IF i > nparams THEN Table(TRUE, NoTable)
    ELSE register_parameters(SymbolTable_insert(locals, <<"param", i - 1>>, parameter_values[i]),
                             nparams, parameter_values, i + 1)

\* Step 4: lowering the body inserts the bindings of body.inserts into
\* self.locals and returns body.ret
RECURSIVE build_body(_, _, _)
build_body(locals, body, i) ==
    IF i > Len(body.inserts) THEN locals
    ELSE build_body(SymbolTable_insert(locals, body.inserts[i][1], body.inserts[i][2]), body, i + 1)

\* a plausible slip: Step 5 is left out, the table of the body stays
restore_table_forgotten(old_table, locals) == locals

\* Step 5: self.locals = old_table
restore_table(old_table, locals) == old_table

\* Steps 2 to 6, dd the layers between the current and the common region
lambda_inline_steps(locals, dd, nparams, parameter_values, body) ==
    IF pop_layers(locals, dd).panic
    THEN ScopeOut(VPanic("Too few layers in symbol table for region"), locals, NoTable)
    ELSE Only({ IF inner.panic
                THEN ScopeOut(VPanic("Iterated index is in bounds"), locals, NoTable)
                ELSE ScopeOut(body.ret, restore_table(locals, build_body(inner.t, body, 1)),
                              inner.t)
              : inner \in {register_parameters(new_table(pop_layers(locals, dd).t),
                                               nparams, parameter_values, 1)} })

\* build_lambda_inline: gcr is an error or the depth of the common region
build_lambda_inline_locals(locals, curr_depth, gcr, nparams, parameter_values, body) ==
    IF ~gcr.some THEN ScopeOut(VErr("IncomparableRegions"), locals, NoTable)
    ELSE lambda_inline_steps(locals, curr_depth - gcr.ix, nparams, parameter_values, body)

\* the layers, tables, parameter values and bodies drawn
ScopeLayers == {{}, {<<<<"x", 0>>, Val_Value("x")>>}, {<<<<"param", 0>>, Val_Value("outer")>>}}

ScopeTables == SeqsUpTo(ScopeLayers, 2)

ScopeBodies ==
    {[inserts |-> ins, ret |-> r] :
        ins \in {<<>>, <<<<<<"y", 0>>, Val_Value("y")>>>>,
                 <<<<<<"x", 0>>, Val_Value("shadow")>>, <<<<"param", 0>>, Val_Unit>>>>},
        r \in {Ok(Val_Value("result")), VErr("NotImplemented")}}

(***************************************************************************)
(* SpecExpr: the lowering functions of expressions and literals applied to *)
(* inputs drawn from bounded sets: a projection of a tuple, a call on an   *)
(* argument list, a logical operation on boolean parameters, an index or   *)
(* bit-vector literal, an addition of two bit-vector literals.  A build of *)
(* the crate checks arithmetic overflow (debug) or not (release).          *)
(***************************************************************************)
\* index values and bit-vector data drawn: small ones, the ones of the tests
\* and both sides of 2^8, 2^16, 2^64
Literals ==
    {FromNat(n) : n \in {0, 1, 2, 3, 4, 5, 6, 7, 8, 9, 255, 256, 300, 8848, 65535}}
    \cup {PredU(Shl1(64)), Shl1(64), SuccU(Shl1(64)), Shl1(127), U128Max}

Widths == {0, 1, 2, 3, 8, 9, 14, 16, 17, 32, 33, 64, 65, 127, 128, 129}

InitExpr ==
  /\ ReprInit /\ ConstInit /\ ArenaInit /\ FrameInit /\ halted = FALSE
  /\
    \/ \E t \in AppProducts, ix \in 0..(MaxFields - 1) :
          call = Pending("build_app_product", [t |-> t, ix |-> ix])
    \/ \E args \in ArgLists, returns_void \in BOOLEAN :
          call = Pending("build_function_call", [args |-> args, void |-> returns_void])
    \/ \E n \in 1..MaxArity : \E l \in Logicals(n) :
          call = Pending("build_logical_expr", l)
    \/ call = Pending("build_mux", "mux")
    \/ \E card \in Cards, ix \in Literals :
          call = Pending("build_index", [card |-> card, ix |-> ix])
    \/ \E card \in Cards, ix \in Literals :
          call = Pending("compile_index", [card |-> card, ix |-> ix])
    \/ \E w \in Widths, data \in Literals, checks \in BOOLEAN :
          call = Pending("build_bits", [width |-> w, data |-> data, checks |-> checks])
    \/ \E w \in Widths \ {0, 129}, a \in Literals, b \in Literals, checks \in BOOLEAN :
          call = Pending("build_app_add", [width |-> w, a |-> a, b |-> b, checks |-> checks])
    \/ \E f \in FnTypes : call = Pending("build_shim", f)
    \/ \E entries \in SeqsUpTo(IxEntries, 2) : call = Pending("IxMap", entries)
    \/ \E locals \in ScopeTables, curr_depth \in 0..2, nparams \in 0..2,
          parameter_values \in SeqsUpTo({Val_Unit, Val_Value("arg")}, 2),
          body \in ScopeBodies :
          \E gcr \in {None} \cup {Some(d) : d \in 0..curr_depth} :
             call = Pending("build_lambda_inline",
                            [locals |-> locals, curr_depth |-> curr_depth, gcr |-> gcr,
                             nparams |-> nparams, parameter_values |-> parameter_values,
                             body |-> body])

DoBuildAppProduct ==
    /\ call = Pending("build_app_product", call.arg)
    /\ call' = Returned(call, build_app_product(call.arg.t, call.arg.ix))
    /\ UNCHANGED <<halted, reprVars, constVars, frameVars, arenaVars>>

DoBuildFunctionCall ==
    /\ call = Pending("build_function_call", call.arg)
    /\ call' = Returned(call, build_function_call_args(call.arg.args, call.arg.void))
    /\ UNCHANGED <<halted, reprVars, constVars, frameVars, arenaVars>>

DoBuildLogicalExpr ==
    /\ call = Pending("build_logical_expr", call.arg)
    /\ call' = Returned(call, Codegen_build_logical_expr(
                                  call.arg, [k \in 1..call.arg.arity |-> E_arg(k)]))
    /\ UNCHANGED <<halted, reprVars, constVars, frameVars, arenaVars>>

DoBuildMux ==
    /\ call = Pending("build_mux", call.arg)
    /\ call' = Returned(call, build_mux)
    /\ UNCHANGED <<halted, reprVars, constVars, frameVars, arenaVars>>

DoBuildIndex ==
    /\ call = Pending("build_index", call.arg)
    /\ call' = Returned(call, build_index(call.arg.card, call.arg.ix))
    /\ UNCHANGED <<halted, reprVars, constVars, frameVars, arenaVars>>

DoCompileIndex ==
    /\ call = Pending("compile_index", call.arg)
    /\ call' = Returned(call, compile_index(call.arg.card, call.arg.ix))
    /\ UNCHANGED <<halted, reprVars, constVars, frameVars, arenaVars>>

DoBuildBits ==
    /\ call = Pending("build_bits", call.arg)
    /\ call' = Returned(call, build_bits(call.arg.width, call.arg.data, call.arg.checks))
    /\ UNCHANGED <<halted, reprVars, constVars, frameVars, arenaVars>>

DoBuildAppAdd ==
    /\ call = Pending("build_app_add", call.arg)
    /\ call' = Returned(call, build_app_add(call.arg.width, call.arg.a, call.arg.b,
                                            call.arg.checks))
    /\ UNCHANGED <<halted, reprVars, constVars, frameVars, arenaVars>>

DoBuildShimFn ==
    /\ call = Pending("build_shim", call.arg)
    /\ call' = Returned(call, build_shim_fn(call.arg))
    /\ UNCHANGED <<halted, reprVars, constVars, frameVars, arenaVars>>

DoBuildLambdaInline ==
    /\ call = Pending("build_lambda_inline", call.arg)
    /\ call' = Returned(call, build_lambda_inline_locals(
                                  call.arg.locals, call.arg.curr_depth, call.arg.gcr,
                                  call.arg.nparams, call.arg.parameter_values, call.arg.body))
    /\ UNCHANGED <<halted, reprVars, constVars, frameVars, arenaVars>>

DoIxMapRoundTrip ==
    /\ call = Pending("IxMap", call.arg)
    /\ call' = Returned(call, IxMap_round_trip(call.arg))
    /\ UNCHANGED <<halted, reprVars, constVars, frameVars, arenaVars>>

NextExpr ==
    \/ DoBuildAppProduct
    \/ DoBuildFunctionCall
    \/ DoBuildLogicalExpr
    \/ DoBuildMux
    \/ DoBuildIndex
    \/ DoCompileIndex
    \/ DoBuildBits
    \/ DoBuildAppAdd
    \/ DoBuildShimFn
    \/ DoBuildLambdaInline
    \/ DoIxMapRoundTrip

SpecExpr == InitExpr /\ [][NextExpr]_vars

(***************************************************************************)
(* SpecArena: any sequence of push, push_end, free and get on one Arena.   *)
(* A panic ends the session.  The history keeps, from what the calls       *)
(* returned, the table each index holds and the order of the frees.        *)
(***************************************************************************)
\* the tables pushed
TableIds == {1, 2}

InitArena == PureInit /\ ReprInit /\ ConstInit /\ ArenaInit /\ FrameInit /\ halted = FALSE

ACalled(op, arg, o) ==
    [op |-> op, arg |-> arg, ret |-> o.ret, panic |-> o.panic, before |-> arena,
     live |-> live, freed |-> freed]

\* the call ended as o: the arena it left, and the session ends on a panic
ArenaStep(op, arg, o) ==
    /\ arena' = o.arena
    /\ acall' = ACalled(op, arg, o)
    /\ halted' = o.panic
    /\ nops' = nops + 1
    /\ UNCHANGED <<pureVars, reprVars, constVars, frameVars>>

\* history: index ix was returned for table
Stored(ix, table) ==
    /\ live' = [k \in 1..(IF ix + 1 > Len(live) THEN ix + 1 ELSE Len(live)) |->
                   IF k = ix + 1 THEN table ELSE live[k]]
    /\ freed' = SelectSeq(freed, LAMBDA k : k # ix)

DoPush(table) ==
    /\ ~halted /\ nops < MaxArenaOps
    /\ ArenaStep("push", table, push(arena, table))
    /\ IF push(arena, table).panic THEN UNCHANGED <<live, freed>>
       ELSE Stored(push(arena, table).ret, table)

DoPushEnd(table) ==
    /\ ~halted /\ nops < MaxArenaOps
    /\ ArenaStep("push_end", table, push_end(arena, table))
    /\ Stored(push_end(arena, table).ret, table)

DoFree(ix) ==
    /\ ~halted /\ nops < MaxArenaOps
    /\ ArenaStep("free", ix, free(arena, ix))
    /\ IF free(arena, ix).ret = NoTableId THEN UNCHANGED <<live, freed>>
       ELSE /\ live' = [live EXCEPT ![ix + 1] = NoTableId]
            /\ freed' = Append(freed, ix)

DoGet(ix) ==
    /\ ~halted /\ nops < MaxArenaOps
    /\ ArenaStep("get", ix, AOut(arena, Arena_get(arena, ix), FALSE))
    /\ UNCHANGED <<live, freed>>

NextArena ==
    \/ \E table \in TableIds : DoPush(table)
    \/ \E table \in TableIds : DoPushEnd(table)
    \/ \E ix \in 0..(capacity(arena) + 1) : DoFree(ix)
    \/ \E ix \in 0..(capacity(arena) + 1) : DoGet(ix)

SpecArena == InitArena /\ [][NextArena]_vars

(***************************************************************************)
(* Claims about the representation functions, checked under SpecPure.      *)
(***************************************************************************)
IsDone(op) == call.op = op /\ call.done

\* the smallest of 8, 16, 32, 64, 128 bits that holds n - 1 unsigned, n >= 3
SmallestScalar(n) ==
    IF Lt(PredU(n), Shl1(8)) THEN "i8"
    ELSE IF Lt(PredU(n), Shl1(16)) THEN "i16"
    ELSE IF Lt(PredU(n), Shl1(32)) THEN "i32"
    ELSE IF Lt(PredU(n), Shl1(64)) THEN "i64"
    ELSE "i128"

FiniteReprClaimed(n) ==
    IF n = FromNat(0) THEN Repr_Empty
    ELSE IF n = FromNat(1) THEN Repr_Prop
    ELSE IF n = FromNat(2) THEN Repr_Type("i1")
    ELSE Repr_Type(SmallestScalar(n))

\* C7: the representation of a finite type of cardinality n is Uninhabited
\* for n = 0, Proposition for n = 1, a 1-bit scalar for n = 2 and, for
\* n >= 3, the smallest scalar of 8, 16, 32, 64 or 128 bits that holds n - 1
\* (8 bits for every n in [3,256], 16 bits for every n in [257,65536], ...).
C7_FiniteSmallestScalar ==
    (IsDone("repr_finite") \/ IsDone("compile_finite"))
        => call.ret = FiniteReprClaimed(call.arg)

AllReprOk(p) == \A i \in 1..Len(p) : p[i].repr.tag = "Ok"

HasEmptyField(p) == \E i \in 1..Len(p) : p[i].repr = Ok(Repr_Empty)

\* C8: a product type with at least one Uninhabited field, every field
\* having a representation, has representation Uninhabited, whatever the
\* other fields are and wherever the uninhabited field stands.
C8_UninhabitedFieldAbsorbs ==
    ((IsDone("repr_product") \/ IsDone("compile_product"))
        /\ AllReprOk(call.arg) /\ HasEmptyField(call.arg))
        => call.ret = Ok(Repr_Empty)

\* C8 witness: repr_product has returned for a product whose last field is
\* Uninhabited and stands after an irrepresentable field and a scalar.
C8_Witness ==
    /\ IsDone("repr_product")
    /\ call.arg = <<F_scalar, F_irrep, F_empty>>
    /\ call.ret = Ok(Repr_Empty)

AllProp(p) == \A i \in 1..Len(p) : p[i].repr = Ok(Repr_Prop)

\* C9: a product type with no Uninhabited field and zero physical fields
\* (every field a Proposition, the product of no fields included) has
\* representation Proposition, and build_tuple of such a tuple returns Unit.
C9_AllPropositionIsProposition ==
    /\ ((IsDone("repr_product") \/ IsDone("compile_product")) /\ AllProp(call.arg))
          => call.ret = Ok(Repr_Prop)
    /\ (IsDone("build_tuple") /\ AllProp(call.arg))
          => call.ret = Ok(Val_Unit)

CollapsingPi(kinds) ==
    /\ IsDone("build_function_repr")
    /\ call.arg.depth = 0
    /\ call.arg.result.repr.tag = "Ok"
    /\ call.arg.result.repr.val.kind \in kinds

C6_ReprStableAndInsertedOnce ==
    /\ \A t \in TypeIds : inserts[t] <= 1
    /\ \A t \in TypeIds : (reprs[t] # Absent) <=> (inserts[t] = 1)
    /\ asserted
    /\ reprs[BoolTy] = Absent
    /\ rcall.op = "repr" =>
          /\ rcall.ret.tag = "Ok" => rcall.ret.val = first[rcall.t]
          /\ rcall.t = BoolTy => ~rcall.hit /\ ~rcall.inserted
          /\ (rcall.t # BoolTy /\ rcall.ret.tag = "Ok") =>
                /\ rcall.before # Absent => rcall.hit /\ ~rcall.inserted
                /\ rcall.before = Absent => rcall.inserted /\ ~rcall.hit

\* a finite type answered from the cache after other types were inserted
\* and the boolean type was asked for
C6_Witness ==
    /\ rcall.op = "repr"
    /\ rcall.t = Finite(FromNat(6))
    /\ rcall.hit
    /\ rcall.ret = Ok(Repr_Type("i8"))
    /\ reprs[Finite(FromNat(256))] = Repr_Type("i16")
    /\ reprs[Finite(FromNat(0))] = Repr_Empty

(***************************************************************************)
(* C4 as stated: over any sequence of calls on one Codegen, compile_enum   *)
(* of a depth-0 value runs at most once.                                   *)
(***************************************************************************)
C4_CompileEnumAtMostOnce ==
    ~halted => \A v \in ConstIds : cg.enum_runs[v] <= 1

(***************************************************************************)
(* C4: once compile_const of a depth-0 value has returned Ok, compile_enum *)
(* never runs for it again: its entry in consts stays, and a later         *)
(* compile_const of it returns the cached Const, allocates no function and *)
(* leaves the counter alone.  A compile_const that returns Err caches      *)
(* nothing and has run compile_enum once more.                             *)
(***************************************************************************)
C4_CompiledOnceAfterOk ==
    ~halted =>
    /\ \A v \in ConstIds :
          /\ cg.enum_oks[v] <= 1
          /\ (cg.consts[v] # NoEntry) <=> (cg.enum_oks[v] = 1)
    /\ ccall.op # "none" =>
          \A v \in ConstIds :
             ccall.cg_before.consts[v] # NoEntry =>
                /\ cg.consts[v] = ccall.cg_before.consts[v]
                /\ cg.enum_runs[v] = ccall.cg_before.enum_runs[v]
    /\ (ccall.op = "compile_const" /\ ccall.v \in ConstIds) =>
          /\ ccall.cg_before.consts[ccall.v] # NoEntry =>
                /\ ccall.ret = Ok(ccall.cg_before.consts[ccall.v])
                /\ cg = ccall.cg_before
          /\ ccall.ret.tag = "Err" =>
                /\ cg.consts[ccall.v] = NoEntry
                /\ cg.enum_runs[ccall.v] = ccall.cg_before.enum_runs[ccall.v] + 1

\* a cached lambda is asked for again after the lambda with a dependent
\* result type has been compiled, in vain, twice
C4_Witness ==
    /\ ccall.op = "compile_const"
    /\ ccall.v = "konst"
    /\ ccall.cg_before.consts["konst"] = Const_Function(0)
    /\ ccall.ret = Ok(Const_Function(0))
    /\ cg.consts["true"] # NoEntry
    /\ cg.enum_runs["dep"] = 2
    /\ cg.counter = 1

NotParameter(v) == as_enum(v).variant # "Parameter"

(***************************************************************************)
(* C5 as stated: in one local context, a depth>0 node that has been built  *)
(* was lowered by build_enum exactly once and is stored in locals; a       *)
(* depth-0 node is always routed to the constant cache and never stored in *)
(* locals.                                                                 *)
(***************************************************************************)
C5_BuildEnumExactlyOnce ==
    (~halted /\ ctx.live) =>
    /\ \A v \in LocalIds :
          (NotParameter(v) /\ ctx.builds[v] >= 1) =>
             ctx.enum_runs[v] = 1 /\ ctx.locals[v] # NoEntry
    /\ \A v \in ConstIds :
          ctx.routed[v] = ctx.builds[v] /\ ctx.locals[v] = NoEntry

(***************************************************************************)
(* C5: in a local context whose region has depth at most 1, a depth>0 node *)
(* whose build_enum returned Ok was lowered successfully exactly once, is  *)
(* stored in locals, and a later build returns the stored value without    *)
(* running build_enum or touching the Codegen; an Err of build_enum stores *)
(* nothing; a depth-0 node is routed to the constant cache and is never    *)
(* stored in locals.  In a context of region depth above 1 build returns   *)
(* Err(NotImplemented) and consults neither cache.                         *)
(***************************************************************************)
C5_BuiltOnceAfterOk ==
    (~halted /\ ctx.live) =>
    /\ \A v \in LocalIds :
          NotParameter(v) =>
             /\ ctx.enum_oks[v] <= 1
             /\ (ctx.locals[v] # NoEntry) <=> (ctx.enum_oks[v] = 1)
    /\ \A v \in ConstIds :
          /\ ctx.locals[v] = NoEntry
          /\ ctx.region_depth <= 1 => ctx.routed[v] = ctx.builds[v]
          /\ ctx.region_depth > 1 => ctx.routed[v] = 0
    /\ ccall.op = "build" =>
          /\ \A w \in LocalIds :
                ccall.ctx_before.locals[w] # NoEntry =>
                   /\ ctx.locals[w] = ccall.ctx_before.locals[w]
                   /\ ctx.enum_runs[w] = ccall.ctx_before.enum_runs[w]
          /\ (ctx.region_depth <= 1 /\ ccall.v \in LocalIds
                /\ ccall.ctx_before.locals[ccall.v] # NoEntry) =>
                /\ ccall.ret = Ok(ccall.ctx_before.locals[ccall.v])
                /\ cg = ccall.cg_before
                /\ ctx.enum_runs = ccall.ctx_before.enum_runs
          /\ (ccall.ret.tag = "Err" /\ ccall.v \in LocalIds) =>
                ctx.locals[ccall.v] = NoEntry
          /\ ctx.region_depth > 1 =>
                /\ ccall.ret = Err("NotImplemented")
                /\ ctx.locals = ccall.ctx_before.locals
                /\ ctx.enum_runs = ccall.ctx_before.enum_runs
                /\ cg = ccall.cg_before

\* twice = (And not_x not_x) built a second time in the context of a
\* prototype: not_x, referenced twice, was lowered once, and so was twice
C5_Witness ==
    /\ ccall.op = "build"
    /\ ccall.v = "twice"
    /\ ccall.ctx_before.locals["twice"] = Local_Value(<<"pand", 0>>)
    /\ ccall.ret = Ok(Local_Value(<<"pand", 0>>))
    /\ ctx.builds["twice"] = 2
    /\ ctx.enum_runs["twice"] = 1
    /\ ctx.builds["not_x"] = 2
    /\ ctx.enum_runs["not_x"] = 1

\* the calls of op, nested ones included, that the last top-level call made
\* and that returned
ReturnedCalls(ops) ==
    {e \in {fr.log[i] : i \in 1..Len(fr.log)} : e.op \in ops /\ e.ret.tag # "Panic"}

FrameRestored(e) ==
    /\ e.post.curr = e.pre.curr
    /\ e.post.head = e.pre.head
    /\ e.post.locals = e.pre.locals
    /\ e.post.region = e.pre.region

C2_TernaryGammaRestoreFrame ==
    \A e \in ReturnedCalls({"build_ternary", "build_gamma"}) : FrameRestored(e)

(***************************************************************************)
(* C3 as stated: after build_shim returns, the builder's insertion point   *)
(* is the one the caller had before the call, whatever the caller's head.  *)
(***************************************************************************)
C3_ShimRestoresInsertionPoint ==
    \A e \in ReturnedCalls({"build_shim"}) : e.post.bpos = e.pre.bpos

\* the calls of op, nested ones included, that the last top-level call made,
\* the ones ended by a panic included
LoggedCalls(ops) == {e \in {fr.log[i] : i \in 1..Len(fr.log)} : e.op \in ops}

\* the call emitted nothing: no function, no name, no block, builder unmoved
NothingEmitted(e) ==
    /\ e.post.functions = e.pre.functions
    /\ e.post.counter = e.pre.counter
    /\ e.post.blocks = e.pre.blocks
    /\ e.post.bpos = e.pre.bpos

(***************************************************************************)
(* C11 as stated: build_lambda of a lambda of nonzero depth returns        *)
(* Err(NotImplemented) without a panic, adds no function, keeps the name   *)
(* counter and leaves curr, head, locals and region unchanged.             *)
(***************************************************************************)
C11_ClosureIsNotImplementedError ==
    \A e \in LoggedCalls({"build_lambda"}) :
       fnode(e.node).depth # 0 =>
          /\ e.ret = VErr("NotImplemented")
          /\ e.post.functions = e.pre.functions
          /\ e.post.counter = e.pre.counter
          /\ FrameRestored(e)

\* the signature of the lambda collapses: build_function_repr gives Prop
SignatureCollapses(n) ==
    fnode(n).depth = 0 /\ build_function_repr(fnode(n).pi).res = Ok(Repr_Prop)

\* the collapse is due to an uninhabited result type
UninhabitedCollapse(n) == fnode(n).pi.result.repr = Ok(Repr_Empty)

C17_UnitCalleeShortCircuits ==
    \A e \in LoggedCalls({"build_app"}) :
       SignatureCollapses(e.node) => (e.ret = Ok(Val_Unit) /\ NothingEmitted(e))

(***************************************************************************)
(* Claims about the lowering of expressions and literals, checked under    *)
(* SpecExpr.                                                               *)
(***************************************************************************)
\* the projection applies to an aggregate and the index is one of its
\* logical positions
ProjectsAggregate ==
    /\ IsDone("build_app_product")
    /\ repr_product(call.arg.t).tag = "Ok"
    /\ repr_product(call.arg.t).val.kind = "Product"
    /\ call.arg.ix < Len(call.arg.t)

\* the Index Map entry of the projected position
ProjectedEntry == IxMap_of(repr_product(call.arg.t).val.mapping, 1, <<>>)[call.arg.ix + 1]

(***************************************************************************)
(* C13: one index i applied to a tuple whose representation is an          *)
(* aggregate.  If the Index Map entry of position i is the sentinel, the   *)
(* result is Unit, the aggregate is not lowered and nothing is emitted.    *)
(* Otherwise the aggregate is lowered once and, when that succeeds, the    *)
(* result is one extractvalue at the slot the map gives for i, and the     *)
(* field extracted is logical member i; a failure of lowering the          *)
(* aggregate is the result, with nothing emitted.                          *)
(***************************************************************************)
C13_ProjectionBySlot ==
    ProjectsAggregate =>
       IF ProjectedEntry = PROP_IX
       THEN call.ret = AppOut(Ok(Val_Unit), 0, <<>>, NoMember)
       ELSE IF build_tuple(call.arg.t).tag = "Ok"
       THEN call.ret = AppOut(Ok(Val_Value("idx")), 1,
                              <<<<"extractvalue", as_u32(ProjectedEntry)>>>>,
                              call.arg.ix)
       ELSE call.ret = AppOut(build_tuple(call.arg.t), 1, <<>>, NoMember)

\* the third member of (scalar, proposition, scalar) is read from slot 1
C13_Witness ==
    /\ ProjectsAggregate
    /\ call.arg.t = <<F_scalar, F_prop, F_scalar>>
    /\ call.arg.ix = 2
    /\ call.ret.instrs = <<<<"extractvalue", 1>>>>
    /\ call.ret.element = 2

\* the assignments of n boolean arguments
Envs(n) == [1..n -> BOOLEAN]

\* the row of the truth table for env: first argument most significant
RECURSIVE TableIndex(_, _)
TableIndex(env, k) ==
    IF k = 0 THEN 0
    ELSE (IF env[k] THEN 2^(Len(env) - k) ELSE 0) + TableIndex(env, k - 1)

(***************************************************************************)
(* C14: for every logical operation of arity 1 to MaxArity applied to as   *)
(* many boolean arguments, and every assignment of the arguments, the      *)
(* value the emitted instructions compute is the truth-table value of the  *)
(* operation; the mux built from or, and, not computes select ? high : low *)
(* on all 8 assignments.                                                   *)
(***************************************************************************)
C14_LogicalMatchesTruthTable ==
    /\ IsDone("build_logical_expr") =>
          /\ call.ret.tag = "Ok"
          /\ \A env \in Envs(call.arg.arity) :
                eval(call.ret.expr, env) = bit(call.arg.data, TableIndex(env, Len(env)))
    /\ IsDone("build_mux") =>
          /\ call.ret.tag = "Ok"
          /\ \A env \in Envs(3) :
                eval(call.ret.expr, env) = (IF env[1] THEN env[2] ELSE env[3])

\* the ternary operation whose table is the mux, lowered by the split
C14_Witness ==
    /\ IsDone("build_logical_expr")
    /\ call.arg = Logical(3, 202)
    /\ call.ret.tag = "Ok"
    /\ call.ret.expr.op = "or"
    /\ call.ret.expr.b.b = E_not(E_arg(1))
    /\ \A env \in Envs(3) :
          eval(call.ret.expr, env) = (IF env[1] THEN env[2] ELSE env[3])

\* every argument lowers, to a value, to Unit or to Contr
ArgsLower(kinds) ==
    /\ IsDone("build_function_call")
    /\ \A k \in 1..Len(call.arg.args) :
          call.arg.args[k].tag = "Ok" /\ call.arg.args[k].val.kind \in kinds

(***************************************************************************)
(* C15 as stated: when some argument lowers to Contr, and the others to a  *)
(* value, Unit or Contr, build_function_call returns Contr and emits no    *)
(* call.                                                                   *)
(***************************************************************************)
C15_ContrArgumentShortCircuits ==
    (/\ ArgsLower({"Value", "Unit", "Contr"})
     /\ \E k \in 1..Len(call.arg.args) : call.arg.args[k].val.kind = "Contr") =>
       (call.ret.ret = Ok(Val_Contr) /\ call.ret.calls = <<>>)

\* the positions of the arguments that lower to a value, in order
RECURSIVE PhysicalArgs(_, _)
PhysicalArgs(args, i) ==
    IF i > Len(args) THEN <<>>
    ELSE (IF args[i].val.kind = "Value" THEN <<i>> ELSE <<>>) \o PhysicalArgs(args, i + 1)

(***************************************************************************)
(* C16 as stated: when every argument lowers to a value or to Unit,        *)
(* build_function_call lowers all of them in order and emits exactly one   *)
(* call whose operands are the lowered values in order, a Unit argument    *)
(* taking no operand; the result is the call's value, or Unit for a call   *)
(* without a return value.                                                 *)
(***************************************************************************)
C16_AllArgsLoweredThenOneCall ==
    ArgsLower({"Value", "Unit"}) =>
       /\ call.ret.lowered = [k \in 1..Len(call.arg.args) |-> k]
       /\ call.ret.calls = <<PhysicalArgs(call.arg.args, 1)>>
       /\ call.ret.ret = IF call.arg.void THEN Ok(Val_Unit) ELSE Ok(Val_Value("call"))

(***************************************************************************)
(* C18 as stated: lowering an index i >= n of a cardinality n that has a   *)
(* scalar representation, or bit-vector data >= 2^w of a width w, ends in  *)
(* a panic.                                                                *)
(***************************************************************************)
C18_OutOfRangeLiteralPanics ==
    /\ ((IsDone("build_index") \/ IsDone("compile_index"))
          /\ repr_finite(call.arg.card).kind = "Type"
          /\ ~Lt(call.arg.ix, call.arg.card)) =>
          call.ret.tag = "Panic"
    /\ (IsDone("build_bits") /\ call.arg.width \in 1..127
          /\ ~Lt(call.arg.data, Shl1(call.arg.width))) =>
          call.ret.tag = "Panic"

\* the smallest of 1, 8, 16, 32, 64, 128 bits that has at least w bits
SmallestBitsType(w) ==
    IF w <= 1 THEN "i1" ELSE IF w <= 8 THEN "i8" ELSE IF w <= 16 THEN "i16"
    ELSE IF w <= 32 THEN "i32" ELSE IF w <= 64 THEN "i64" ELSE "i128"

\* data < 2^w, for 1 <= w <= 128
BelowPow2(data, w) == w = 128 \/ Lt(data, Shl1(w % 128))

(***************************************************************************)
(* C19 as stated: for 1 <= w <= 128 and data < 2^w, build_bits returns the *)
(* constant of the smallest type of at least w bits whose value is data.   *)
(***************************************************************************)
C19_BitsExactConstant ==
    (IsDone("build_bits") /\ call.arg.width \in 1..128
       /\ BelowPow2(call.arg.data, call.arg.width)) =>
       call.ret = Ok(Val_Int(SmallestBitsType(call.arg.width), call.arg.data))

(***************************************************************************)
(* C20 as stated: the addition of two bit-vector constants a and b of      *)
(* width w is the constant of the representation type of w whose value is  *)
(* (a + b) mod 2^w.                                                        *)
(***************************************************************************)
C20_AddModuloWidth ==
    (IsDone("build_app_add") /\ call.arg.width \in 1..128
       /\ BelowPow2(call.arg.a, call.arg.width)
       /\ BelowPow2(call.arg.b, call.arg.width)) =>
       call.ret = Ok(Val_Int(SmallestBitsType(call.arg.width),
                             TruncBits(AddU(call.arg.a, call.arg.b), call.arg.width)))

(***************************************************************************)
(* Claims about build_shim on a function signature, checked under          *)
(* SpecExpr.                                                               *)
(***************************************************************************)
ShimBuilt == IsDone("build_shim") /\ call.ret.ret.tag = "Ok"

\* the positions of the body's instructions of kind op
BodyAt(op) == {k \in 1..Len(call.ret.body) : call.ret.body[k].op = op}

(***************************************************************************)
(* C21: the shim of f has one parameter per parameter of f, in order, a    *)
(* struct parameter as a pointer to the struct, and, exactly when f        *)
(* returns a struct, a last out-pointer parameter and the return type i32; *)
(* its body loads every struct argument through its pointer, once, before  *)
(* the one call of f, whose operands are in the order of the parameters,   *)
(* the loaded value for a struct and the parameter itself for a scalar;    *)
(* when f returns a struct the body ends with the store of the call's      *)
(* result through the out-pointer, then the return of the i32 constant 0.  *)
(***************************************************************************)
C21_ShimMarshalsAggregates ==
    ShimBuilt =>
       /\ Len(call.ret.ty.params)
             = Len(call.arg.params) + (IF call.arg.ret = "struct" THEN 1 ELSE 0)
       /\ \A i \in 1..Len(call.arg.params) :
             call.ret.ty.params[i] = IF call.arg.params[i] = "struct" THEN "ptr_struct"
                                     ELSE call.arg.params[i]
       /\ call.ret.ty.ret = IF call.arg.ret = "struct" THEN "i32" ELSE call.arg.ret
       /\ Cardinality(BodyAt("call")) = 1
       /\ \A c \in BodyAt("call") :
             /\ Len(call.ret.body[c].args) = Len(call.arg.params)
             /\ \A i \in 1..Len(call.arg.params) :
                   /\ call.arg.params[i] = "struct" =>
                         /\ call.ret.body[c].args[i] = ShimLoad(i)
                         /\ Cardinality({k \in BodyAt("load") :
                                            call.ret.body[k].ptr = ShimParam(i)}) = 1
                         /\ \A k \in BodyAt("load") : k < c
                   /\ call.arg.params[i] = "int" =>
                         call.ret.body[c].args[i] = ShimParam(i)
             /\ call.arg.ret = "struct" =>
                   /\ Len(call.ret.body) = c + 2
                   /\ call.ret.ty.params[Len(call.ret.ty.params)] = "ptr_struct"
                   /\ call.ret.body[c + 1]
                         = [op |-> "store", ptr |-> ShimParam(Len(call.ret.ty.params)),
                            value |-> "call"]
                   /\ call.ret.body[c + 2] = [op |-> "ret", value |-> "i32 0"]

\* the shim of the identity on a product, as the test builds it
C21_Witness ==
    /\ ShimBuilt
    /\ call.arg = FnType(<<"struct">>, "struct")
    /\ call.ret.ty = FnType(<<"ptr_struct", "ptr_struct">>, "i32")
    /\ Len(call.ret.body) = 4
    /\ call.ret.body[1] = [op |-> "load", ptr |-> ShimParam(1)]

(***************************************************************************)
(* C22 as stated: in the shim every scalar parameter and every parameter   *)
(* that is a pointer in f is an operand of the call as it is, not loaded   *)
(* through, and a scalar or pointer return of f is returned as it is, with *)
(* no out-pointer parameter.                                               *)
(***************************************************************************)
C22_ScalarsAndPointersPassThrough ==
    ShimBuilt =>
       /\ \A c \in BodyAt("call") : \A i \in 1..Len(call.arg.params) :
             call.arg.params[i] \in {"int", "ptr"} =>
                /\ call.ret.ty.params[i] = call.arg.params[i]
                /\ call.ret.body[c].args[i] = ShimParam(i)
                /\ \A k \in BodyAt("load") : call.ret.body[k].ptr # ShimParam(i)
       /\ call.arg.ret \in {"int", "ptr"} =>
             /\ call.ret.ty.ret = call.arg.ret
             /\ Len(call.ret.ty.params) = Len(call.arg.params)
             /\ call.ret.body[Len(call.ret.body)] = [op |-> "ret", value |-> "call"]

(***************************************************************************)
(* Claims about the lowering of ternary nodes, checked under SpecFrame.    *)
(***************************************************************************)
\* the cases of a ternary node the lowering does not support: branches of
\* different types, a result type represented by a struct or a function,
\* a branch of a scalar type that lowers to no scalar value
UnsupportedTernary(n) ==
    /\ fnode(n).kind = "Ternary"
    /\ fnode(n).depth = 0 /\ fnode(n).pi.depth = 0
    /\ \/ fnode(n).low_ty # fnode(n).pi.result
       \/ /\ fnode(n).pi.result.repr.tag = "Ok"
          /\ fnode(n).pi.result.repr.val.kind \in {"Product", "Function"}
       \/ fnode(fnode(n).body).kind = "Contr"

(***************************************************************************)
(* C23 as stated: build_ternary on a ternary node in an unsupported case   *)
(* returns Err(NotImplemented) to its caller.                              *)
(***************************************************************************)
C23_UnsupportedTernaryIsError ==
    \A e \in LoggedCalls({"build_ternary"}) :
       UnsupportedTernary(e.node) => e.ret = VErr("NotImplemented")

(***************************************************************************)
(* Claims about the index maps of representations, checked under SpecPure. *)
(***************************************************************************)
\* the physical slots of a sequence of Option<u32> entries, in order
RECURSIVE SlotsOf(_, _)
SlotsOf(entries, i) ==
    IF i > Len(entries) THEN <<>>
    ELSE (IF entries[i].some THEN <<entries[i].ix>> ELSE <<>>) \o SlotsOf(entries, i + 1)

\* the map has one entry per logical position of tys, an entry is a slot
\* exactly when the type at its position has a physical representation,
\* and the slots are 0, 1, .., k-1 in order, k the number of physical types
WellFormedMap(entries, tys, physical) ==
    /\ Len(entries) = Len(tys)
    /\ \A i \in 1..Len(entries) :
          entries[i].some <=> tys[i].repr.val.kind \in {"Type", "Function", "Product"}
    /\ SlotsOf(entries, 1) = [j \in 1..Len(physical) |-> j - 1]

(***************************************************************************)
(* C24 as stated: the index map of every Product representation returned   *)
(* by repr_product and of every Function representation returned by        *)
(* build_function_repr is well formed for the fields, or the parameters,   *)
(* it was made from.                                                       *)
(***************************************************************************)
C24_IndexMapWellFormed ==
    /\ (IsDone("repr_product") /\ call.ret.tag = "Ok" /\ call.ret.val.kind = "Product") =>
          WellFormedMap(call.ret.val.mapping, call.arg, call.ret.val.repr)
    /\ (IsDone("build_function_repr") /\ call.ret.res.tag = "Ok"
          /\ call.ret.res.val.kind = "Function") =>
          WellFormedMap([j \in 1..Len(call.ret.res.val.mapping) |->
                            IxMap_get(call.ret.res.val.mapping, j - 1)],
                        call.arg.params, call.ret.res.val.repr)

(***************************************************************************)
(* Claims about the control flow build_ternary_inline emits, checked under *)
(* SpecFrame on the code of the last top-level call.                       *)
(***************************************************************************)
\* the instructions emitted into block b, in order
RECURSIVE InstrsIn(_, _)
InstrsIn(b, i) ==
    IF i > Len(fr.code) THEN <<>>
    ELSE (IF fr.code[i].block = b THEN <<fr.code[i].instr>> ELSE <<>>) \o InstrsIn(b, i + 1)

\* block b holds instructions and the first terminator in it is t
EndsWith(b, t) ==
    /\ InstrsIn(b, 1) # <<>>
    /\ \E k \in 1..Len(InstrsIn(b, 1)) :
          /\ InstrsIn(b, 1)[k] = t
          /\ \A j \in 1..(k - 1) : InstrsIn(b, 1)[j].op \notin {"br", "condbr", "ret"}

(***************************************************************************)
(* C25 as stated: after a build_ternary_inline that returned Ok in the     *)
(* function f, the block that was current at the call ends with the        *)
(* conditional branch to f's high and low blocks, the high and the low     *)
(* block each end with a branch to the result block, the phi, with one     *)
(* incoming value from each branch, is in the result block, and on return  *)
(* the head and the builder's position are the result block.               *)
(***************************************************************************)
C25_TernaryControlFlowWellFormed ==
    \A e \in LoggedCalls({"build_ternary_inline"}) :
       e.ret.tag = "Ok" =>
          /\ EndsWith(e.pre.bpos,
                      [op |-> "condbr",
                       to |-> <<Block(e.pre.curr, "high"), Block(e.pre.curr, "low")>>])
          /\ EndsWith(Block(e.pre.curr, "high"),
                      [op |-> "br", to |-> <<Block(e.pre.curr, "ternary_result")>>])
          /\ EndsWith(Block(e.pre.curr, "low"),
                      [op |-> "br", to |-> <<Block(e.pre.curr, "ternary_result")>>])
          /\ InstrsIn(Block(e.pre.curr, "ternary_result"), 1)[1]
                = [op |-> "phi",
                   to |-> <<Block(e.pre.curr, "high"), Block(e.pre.curr, "low")>>]
          /\ e.post.head = Block(e.pre.curr, "ternary_result")
          /\ e.post.bpos = Block(e.pre.curr, "ternary_result")

(***************************************************************************)
(* Claims about the recursion of build_logical_expr, checked under         *)
(* SpecExpr.                                                               *)
(***************************************************************************)
\* the calls made by the returned build_logical_expr on n parameters
LogicalCalls ==
    logical_calls(call.arg, [k \in 1..call.arg.arity |-> E_arg(k)], 0)

(***************************************************************************)
(* C26: build_logical_expr on an operation of arity n >= 1 and n arguments *)
(* returns a value, and every call it makes, at depth d of the recursion,  *)
(* is on an operation of arity n - d >= 1 and on the last n - d arguments: *)
(* each step removes exactly the first argument, the arity equals the      *)
(* number of arguments at every call, and the depth stays below n.         *)
(***************************************************************************)
C26_LogicalRecursionTerminates ==
    IsDone("build_logical_expr") =>
       /\ call.ret.tag = "Ok"
       /\ \A calls \in {LogicalCalls} :
             /\ Len(calls) <= 2^call.arg.arity - 1
             /\ \A k \in 1..Len(calls) :
                   /\ calls[k].depth < call.arg.arity
                   /\ calls[k].l.arity = call.arg.arity - calls[k].depth
                   /\ calls[k].l.arity = Len(calls[k].args)
                   /\ calls[k].args
                         = [j \in 1..(call.arg.arity - calls[k].depth) |->
                               E_arg(j + calls[k].depth)]

\* the mux table on three parameters: the split recurses twice on each side
C26_Witness ==
    /\ IsDone("build_logical_expr")
    /\ call.arg = Logical(3, 202)
    /\ Len(LogicalCalls) = 7
    /\ LogicalCalls[3].depth = 2
    /\ LogicalCalls[3].args = <<E_arg(3)>>

(***************************************************************************)
(* Claims about the symbol table in build_lambda_inline, checked under     *)
(* SpecExpr.                                                               *)
(***************************************************************************)
\* the layer that binds parameter i to parameter_values[i], for every i
ParameterLayer(parameter_values) ==
    {<<<<"param", i - 1>>, parameter_values[i]>> : i \in 1..Len(parameter_values)}

(***************************************************************************)
(* C27: when build_lambda_inline returns, Ok or Err, self.locals is the    *)
(* caller's table of before the call, whatever lowering the body inserted; *)
(* and when the common region was found, the body was lowered in the       *)
(* caller's table with curr_depth - gcr layers popped and one new layer    *)
(* that binds the i-th parameter to parameter_values[i], and nothing else. *)
(***************************************************************************)
C27_InlineLambdaScopeRestored ==
    (IsDone("build_lambda_inline") /\ call.ret.ret.tag # "Panic") =>
       /\ call.ret.locals = call.arg.locals
       /\ call.arg.gcr.some =>
             call.ret.inner
                = SubSeq(call.arg.locals, 1,
                         Len(call.arg.locals) - (call.arg.curr_depth - call.arg.gcr.ix))
                  \o <<ParameterLayer(call.arg.parameter_values)>>

\* one layer popped from a table of two, a parameter bound that the outer
\* layer also binds, and a body that inserts bindings
C27_Witness ==
    /\ IsDone("build_lambda_inline")
    /\ call.ret.ret.tag = "Ok"
    /\ Len(call.arg.locals) = 2
    /\ call.arg.gcr.some /\ call.arg.curr_depth - call.arg.gcr.ix = 1
    /\ call.arg.locals[1] = {<<<<"param", 0>>, Val_Value("outer")>>}
    /\ call.arg.parameter_values = <<Val_Value("arg")>>
    /\ Len(call.arg.body.inserts) = 2
    /\ call.ret.inner = <<call.arg.locals[1], {<<<<"param", 0>>, Val_Value("arg")>>}>>
    /\ call.ret.locals = call.arg.locals

(***************************************************************************)
(* Claims about the Arena, checked under SpecArena.                        *)
(***************************************************************************)
\* the indices the free list visits from ix on, at most fuel of them, and
\* usize_MAX last when the list ends at the sentinel
RECURSIVE FreeList(_, _, _)
FreeList(a, ix, fuel) ==
    IF ix = usize_MAX THEN <<usize_MAX>>
    ELSE IF fuel = 0 \/ ix >= Len(a.data) THEN <<ix>>
    ELSE IF a.data[ix + 1].left THEN <<ix>>
    ELSE <<ix>> \o FreeList(a, a.data[ix + 1].v, fuel - 1)

Reverse(q) == [k \in 1..Len(q) |-> q[Len(q) + 1 - k]]

(***************************************************************************)
(* C28 as stated: free(ix) with ix >= capacity(), ix = capacity()          *)
(* included, or with the slot at ix already freed, returns None without a  *)
(* panic and leaves the arena unchanged; otherwise it returns the table    *)
(* stored at ix, after which get(ix) is None and ix heads the free list.   *)
(***************************************************************************)
C28_FreeOutOfBoundsIsNone ==
    acall.op = "free" =>
       IF acall.arg >= capacity(acall.before) \/ Arena_get(acall.before, acall.arg) = NoTableId
       THEN ~acall.panic /\ acall.ret = NoTableId /\ arena = acall.before
       ELSE /\ ~acall.panic
            /\ acall.ret = acall.live[acall.arg + 1]
            /\ acall.ret # NoTableId
            /\ Arena_get(arena, acall.arg) = NoTableId
            /\ arena.free_head = acall.arg

(***************************************************************************)
(* C29: after any sequence of push, push_end and free, the free list from  *)
(* free_head visits exactly the freed indices, the last freed first, each  *)
(* once, and ends at usize::MAX, and push does not panic; an index that    *)
(* push or push_end returns held no table before; get(ix) is the table     *)
(* last stored at ix when ix holds one and None otherwise; push takes the  *)
(* last freed index when there is one and otherwise adds one slot at the   *)
(* end; the capacity never decreases.                                      *)
(***************************************************************************)
C29_ArenaFreeListInvariant ==
    /\ FreeList(arena, arena.free_head, Len(arena.data) + 1)
          = Reverse(freed) \o <<usize_MAX>>
    /\ \A i \in 1..Len(freed) : \A j \in 1..Len(freed) : freed[i] = freed[j] => i = j
    /\ acall.op = "push" => ~acall.panic
    /\ \A ix \in 0..(capacity(arena) + 1) :
          Arena_get(arena, ix) = IF ix < Len(live) THEN live[ix + 1] ELSE NoTableId
    /\ acall.op = "get" => acall.ret = Arena_get(arena, acall.arg)
    /\ (acall.op \in {"push", "push_end"} /\ ~acall.panic) =>
          /\ acall.ret >= Len(acall.live) \/ acall.live[acall.ret + 1] = NoTableId
          /\ Arena_get(arena, acall.ret) = acall.arg
    /\ (acall.op = "push" /\ acall.freed # <<>>) =>
          /\ acall.ret = acall.freed[Len(acall.freed)]
          /\ capacity(arena) = capacity(acall.before)
    /\ (acall.op = "push_end" \/ (acall.op = "push" /\ acall.freed = <<>>)) =>
          /\ acall.ret = capacity(acall.before)
          /\ capacity(arena) = capacity(acall.before) + 1
    /\ capacity(arena) >= capacity(acall.before)

\* a push that took the last freed of two freed slots
C29_Witness ==
    /\ acall.op = "push" /\ ~acall.panic
    /\ Len(acall.freed) = 2
    /\ acall.ret = acall.freed[2]
    /\ freed = <<acall.freed[1]>>
    /\ arena.free_head = acall.freed[1]
    /\ capacity(arena) = 2
    /\ Arena_get(arena, acall.ret) = acall.arg

(***************************************************************************)
(* Claims about IxMap, checked under SpecExpr.                             *)
(***************************************************************************)
(***************************************************************************)
(* C30 as stated: after the entries e_0..e_m were pushed with push,        *)
(* push_ix or push_prop, iter() yields e_0..e_m in order, and get(j) is    *)
(* Some(n) when e_j is the slot n, for every 32-bit n, and None when e_j   *)
(* is the proposition marker or j is past the end.                         *)
(***************************************************************************)
C30_IxMapRoundTrip ==
    IsDone("IxMap") =>
       /\ call.ret.iter = [j \in 1..Len(call.arg) |-> call.arg[j].e]
       /\ \A j \in 1..Len(call.arg) :
             call.ret.get[j] = IF call.arg[j].e.prop THEN None32
                               ELSE [some |-> TRUE, ix |-> call.arg[j].e.ix]
       /\ call.ret.get[Len(call.arg) + 1] = None32

====
